---- MODULE Spec2Model ----
(***************************************************************************)
(* State-machine model of the chess rules engine (chess/engine.py,         *)
(* chess/board.py, chess/pieces.py) and of the game state object           *)
(* ChessState (chessgame.py): move proposals, promotion, undo, reset,      *)
(* draw rules and history snapshots.                                       *)
(***************************************************************************)
EXTENDS Integers, Sequences, FiniteSets, TLC

(***************************************************************************)
(* chess/pieces.py                                                         *)
(***************************************************************************)
PAWN == "pawn"
KNIGHT == "knight"
BISHOP == "bishop"
ROOK == "rook"
QUEEN == "queen"
KING == "king"
NONE == "none"
WHITE == "W"
BLACK == "B"

Piece(type, owner) == [type |-> type, owner |-> owner]

NO_PIECE == Piece(NONE, NONE)

\* Python's None for the optional en-passant target; a target is <<row, col>>.
None == << >>

Rows == 0 .. 7

abs(x) == IF x < 0 THEN -x ELSE x

min(a, b) == IF a < b THEN a ELSE b

max(a, b) == IF a > b THEN a ELSE b

\* the opposing player, as written inline at every use in the source
enemy_player(player) == IF player = WHITE THEN BLACK ELSE WHITE

\* grid[row][col] = piece
SetSquare(grid, row, col, piece) == [grid EXCEPT ![row][col] = piece]

(***************************************************************************)
(* chess/board.py                                                          *)
(***************************************************************************)
BackRank(owner) ==
    [c \in Rows |->
        Piece(CASE c \in {0, 7} -> ROOK
                [] c \in {1, 6} -> KNIGHT
                [] c \in {2, 5} -> BISHOP
                [] c = 3 -> QUEEN
                [] OTHER -> KING, owner)]

create_default_board ==
    [r \in Rows |->
        CASE r = 0 -> BackRank(BLACK)
          [] r = 1 -> [c \in Rows |-> Piece(PAWN, BLACK)]
          [] r = 6 -> [c \in Rows |-> Piece(PAWN, WHITE)]
          [] r = 7 -> BackRank(WHITE)
          [] OTHER -> [c \in Rows |-> NO_PIECE]]

\* all squares holding the player's king, as row * 8 + col
KingSquares(grid, player) ==
    {i \in 0 .. 63 : grid[i \div 8][i % 8] = Piece(KING, player)}

SetMin(S) == CHOOSE x \in S : \A y \in S : x <= y

\* row-major scan; the first king found, or None
find_king(grid, player) ==
    LET ks == KingSquares(grid, player)
    IN  IF ks = {} THEN None
        ELSE LET i == SetMin(ks) IN <<i \div 8, i % 8>>

copy_board(grid) == grid

(***************************************************************************)
(* chess/engine.py : geometry                                              *)
(***************************************************************************)
sign(d) == IF d = 0 THEN 0 ELSE IF d > 0 THEN 1 ELSE -1

\* faulty variant: pieces in the way are not looked at
_is_path_clear_unchecked(grid, from_row, from_col, to_row, to_col) == TRUE

\* The loop walks from the square after "from" towards "to" and stops there.
\* It is only called for straight or diagonal lines, where it reaches "to"
\* after max(|dr|, |dc|) steps.
_is_path_clear(grid, from_row, from_col, to_row, to_col) ==
    LET row_step == sign(to_row - from_row)
        col_step == sign(to_col - from_col)
        n == max(abs(to_row - from_row), abs(to_col - from_col))
    IN  \A k \in 1 .. (n - 1) :
            grid[from_row + k * row_step][from_col + k * col_step].type = NONE

\* faulty variant: the two-square advance does not look at the square it
\* jumps over
_is_valid_pawn_move_jumping(grid, from_row, from_col, to_row, to_col, owner, en_passant_target) ==
    LET direction == IF owner = WHITE THEN -1 ELSE 1
        start_row == IF owner = WHITE THEN 6 ELSE 1
    IN  IF from_col = to_col
        THEN IF to_row = from_row + direction
             THEN grid[to_row][to_col].type = NONE
             ELSE IF from_row = start_row /\ to_row = from_row + 2 * direction
                  THEN grid[to_row][to_col].type = NONE
                  ELSE FALSE
        ELSE IF abs(from_col - to_col) = 1 /\ to_row = from_row + direction
             THEN LET target_piece == grid[to_row][to_col]
                  IN  \/ (target_piece.type # NONE /\ target_piece.owner # owner)
                      \/ /\ en_passant_target # None
                         /\ <<to_row, to_col>> = en_passant_target
                         /\ target_piece.type = NONE
             ELSE FALSE

_is_valid_pawn_move(grid, from_row, from_col, to_row, to_col, owner, en_passant_target) ==
    LET direction == IF owner = WHITE THEN -1 ELSE 1
        start_row == IF owner = WHITE THEN 6 ELSE 1
    IN  IF from_col = to_col
        THEN IF to_row = from_row + direction
             THEN grid[to_row][to_col].type = NONE
             ELSE IF from_row = start_row /\ to_row = from_row + 2 * direction
                  THEN /\ grid[to_row][to_col].type = NONE
                       /\ grid[from_row + direction][to_col].type = NONE
                  ELSE FALSE
        ELSE IF abs(from_col - to_col) = 1 /\ to_row = from_row + direction
             THEN LET target_piece == grid[to_row][to_col]
                  IN  \/ (target_piece.type # NONE /\ target_piece.owner # owner)
                      \/ /\ en_passant_target # None
                         /\ <<to_row, to_col>> = en_passant_target
                         /\ target_piece.type = NONE
             ELSE FALSE

_is_valid_rook_move(grid, from_row, from_col, to_row, to_col) ==
    IF from_row # to_row /\ from_col # to_col
    THEN FALSE
    ELSE _is_path_clear(grid, from_row, from_col, to_row, to_col)

_is_valid_bishop_move(grid, from_row, from_col, to_row, to_col) ==
    IF abs(from_row - to_row) # abs(from_col - to_col)
    THEN FALSE
    ELSE _is_path_clear(grid, from_row, from_col, to_row, to_col)

\* a knight that leaps one row and two columns only
_is_valid_knight_move_flat(grid, from_row, from_col, to_row, to_col) ==
    abs(from_row - to_row) = 1 /\ abs(from_col - to_col) = 2

_is_valid_knight_move(grid, from_row, from_col, to_row, to_col) ==
    LET row_diff == abs(from_row - to_row)
        col_diff == abs(from_col - to_col)
    IN  (row_diff = 2 /\ col_diff = 1) \/ (row_diff = 1 /\ col_diff = 2)

_is_valid_queen_move(grid, from_row, from_col, to_row, to_col) ==
    \/ _is_valid_rook_move(grid, from_row, from_col, to_row, to_col)
    \/ _is_valid_bishop_move(grid, from_row, from_col, to_row, to_col)

_is_valid_king_move(grid, from_row, from_col, to_row, to_col) ==
    LET row_diff == abs(from_row - to_row)
        col_diff == abs(from_col - to_col)
    IN  row_diff <= 1 /\ col_diff <= 1

is_castling_move(grid, from_row, from_col, to_row, to_col) ==
    IF grid[from_row][from_col].type # KING
    THEN FALSE
    ELSE from_row = to_row /\ abs(from_col - to_col) = 2

is_valid_move(grid, from_row, from_col, to_row, to_col, en_passant_target) ==
    IF ~(0 <= to_row /\ to_row < 8 /\ 0 <= to_col /\ to_col < 8) THEN FALSE
    ELSE LET piece == grid[from_row][from_col]
             destination_piece == grid[to_row][to_col]
         IN  IF piece.type = NONE THEN FALSE
             ELSE IF from_row = to_row /\ from_col = to_col THEN FALSE
             ELSE IF destination_piece.type # NONE /\ destination_piece.owner = piece.owner
                  THEN FALSE
             ELSE CASE piece.type = PAWN ->
                         _is_valid_pawn_move(grid, from_row, from_col, to_row, to_col,
                                             piece.owner, en_passant_target)
                    [] piece.type = ROOK ->
                         _is_valid_rook_move(grid, from_row, from_col, to_row, to_col)
                    [] piece.type = BISHOP ->
                         _is_valid_bishop_move(grid, from_row, from_col, to_row, to_col)
                    [] piece.type = KNIGHT ->
                         _is_valid_knight_move(grid, from_row, from_col, to_row, to_col)
                    [] piece.type = QUEEN ->
                         _is_valid_queen_move(grid, from_row, from_col, to_row, to_col)
                    [] piece.type = KING ->
                         IF is_castling_move(grid, from_row, from_col, to_row, to_col)
                         THEN TRUE
                         ELSE _is_valid_king_move(grid, from_row, from_col, to_row, to_col)
                    [] OTHER -> FALSE

(***************************************************************************)
(* chess/engine.py : attack and check detection                            *)
(***************************************************************************)
\* the call passes no en-passant target (its default, None)
is_square_under_attack(grid, row, col, by_player) ==
    \E attack_row \in Rows, attack_col \in Rows :
        LET piece == grid[attack_row][attack_col]
        IN  /\ piece.type # NONE
            /\ piece.owner = by_player
            /\ is_valid_move(grid, attack_row, attack_col, row, col, None)

\* faulty variant: a player without a king counts as in check
is_in_check_kingless(grid, player) ==
    LET king_pos == find_king(grid, player)
    IN  IF king_pos = None THEN TRUE
        ELSE is_square_under_attack(grid, king_pos[1], king_pos[2], enemy_player(player))

is_in_check(grid, player) ==
    LET king_pos == find_king(grid, player)
    IN  IF king_pos = None THEN FALSE
        ELSE is_square_under_attack(grid, king_pos[1], king_pos[2], enemy_player(player))

\* The board the function works on between its "temporarily make the move"
\* and its "restore" steps.
MoveApplied(grid, from_row, from_col, to_row, to_col) ==
    SetSquare(SetSquare(grid, to_row, to_col, grid[from_row][from_col]),
              from_row, from_col, NO_PIECE)

\* faulty variant: the temporary move is not taken back
would_leave_king_in_check_unrestored(grid, from_row, from_col, to_row, to_col, player) ==
    LET moved == MoveApplied(grid, from_row, from_col, to_row, to_col)
    IN  [result |-> is_in_check(moved, player), grid |-> moved]

\* faulty variant: the moved piece is put back, the captured piece is not
would_leave_king_in_check_capture_lost(grid, from_row, from_col, to_row, to_col, player) ==
    LET moved == MoveApplied(grid, from_row, from_col, to_row, to_col)
    IN  [result |-> is_in_check(moved, player),
         grid |-> SetSquare(moved, from_row, from_col, grid[from_row][from_col])]

\* Returns the verdict together with the board the in-place edits leave behind.
would_leave_king_in_check(grid, from_row, from_col, to_row, to_col, player) ==
    LET original_piece == grid[from_row][from_col]
        captured_piece == grid[to_row][to_col]
        moved == MoveApplied(grid, from_row, from_col, to_row, to_col)
        king_in_check == is_in_check(moved, player)
        restored == SetSquare(SetSquare(moved, from_row, from_col, original_piece),
                              to_row, to_col, captured_piece)
    IN  [result |-> king_in_check, grid |-> restored]

(***************************************************************************)
(* chess/engine.py : castling, en passant, promotion, notation, legal moves*)
(***************************************************************************)
\* faulty variant: the probe never finds the king in check
CastlingProbeUnattacked(grid, from_row, from_col, test_col, player) ==
    [in_check |-> FALSE, grid |-> grid]

\* One pass of the probing loop: the king is lifted from its square, put on
\* test_col, is_in_check is asked, then the king is put back and test_col is
\* overwritten with NO_PIECE.
CastlingProbe(grid, from_row, from_col, test_col, player) ==
    LET original_king == grid[from_row][from_col]
        probing == SetSquare(SetSquare(grid, from_row, from_col, NO_PIECE),
                             from_row, test_col, original_king)
        in_check == is_in_check(probing, player)
        restored == SetSquare(SetSquare(probing, from_row, from_col, original_king),
                              from_row, test_col, NO_PIECE)
    IN  [in_check |-> in_check, grid |-> restored]

\* Returns the verdict together with the board the in-place probes leave behind.
is_valid_castling(grid, from_row, from_col, to_row, to_col, player, king_moved, kingside_rook_moved, queenside_rook_moved) ==
    LET piece == grid[from_row][from_col]
        is_kingside == to_col > from_col
        rook_col == IF is_kingside THEN 7 ELSE 0
        rook == grid[from_row][rook_col]
        start_col == min(from_col, rook_col) + 1
        end_col == max(from_col, rook_col)
        direction == IF is_kingside THEN 1 ELSE -1
        no == [result |-> FALSE, grid |-> grid]
    IN  IF piece.type # KING \/ piece.owner # player THEN no
        ELSE IF king_moved THEN no
        ELSE IF from_row # to_row \/ abs(from_col - to_col) # 2 THEN no
        ELSE IF is_kingside /\ kingside_rook_moved THEN no
        ELSE IF ~is_kingside /\ queenside_rook_moved THEN no
        ELSE IF rook.type # ROOK \/ rook.owner # player THEN no
        ELSE IF \E col \in start_col .. (end_col - 1) : grid[from_row][col].type # NONE
             THEN no
        ELSE IF is_in_check(grid, player) THEN no
        ELSE LET p1 == CastlingProbe(grid, from_row, from_col, from_col + direction, player)
                 p2 == CastlingProbe(p1.grid, from_row, from_col,
                                     from_col + 2 * direction, player)
             IN  IF p1.in_check THEN [result |-> FALSE, grid |-> p1.grid]
                 ELSE IF p2.in_check THEN [result |-> FALSE, grid |-> p2.grid]
                 ELSE [result |-> TRUE, grid |-> p2.grid]

is_en_passant_move(grid, from_row, from_col, to_row, to_col, en_passant_target) ==
    IF grid[from_row][from_col].type # PAWN THEN FALSE
    ELSE /\ abs(from_col - to_col) = 1
         /\ grid[to_row][to_col].type = NONE
         /\ en_passant_target # None
         /\ <<to_row, to_col>> = en_passant_target

\* faulty variant: a two-row pawn move gives a target whatever row it starts on
get_en_passant_target_any_rank(from_row, from_col, to_row, to_col, piece_type, owner) ==
    IF piece_type # PAWN THEN None
    ELSE IF abs(from_row - to_row) # 2 \/ from_col # to_col THEN None
    ELSE <<(from_row + to_row) \div 2, from_col>>

get_en_passant_target(from_row, from_col, to_row, to_col, piece_type, owner) ==
    IF piece_type # PAWN THEN None
    ELSE IF abs(from_row - to_row) # 2 \/ from_col # to_col THEN None
    ELSE IF owner = WHITE /\ from_row # 6 THEN None
    ELSE IF owner = BLACK /\ from_row # 1 THEN None
    ELSE <<(from_row + to_row) \div 2, from_col>>

\* faulty variant: either end row promotes a pawn of either colour
is_pawn_promotion_either_end(from_row, to_row, piece_type, owner) ==
    piece_type = PAWN /\ to_row \in {0, 7}

is_pawn_promotion(from_row, to_row, piece_type, owner) ==
    IF piece_type # PAWN THEN FALSE
    ELSE IF owner = WHITE /\ to_row = 0 THEN TRUE
    ELSE IF owner = BLACK /\ to_row = 7 THEN TRUE
    ELSE FALSE

COL_NOTATION == <<"a", "b", "c", "d", "e", "f", "g", "h">>

\* piece_symbols.get(piece_type, "")
piece_symbols(piece_type) ==
    CASE piece_type = KING -> "K"
      [] piece_type = QUEEN -> "Q"
      [] piece_type = ROOK -> "R"
      [] piece_type = BISHOP -> "B"
      [] piece_type = KNIGHT -> "N"
      [] OTHER -> ""

\* f"{COL_NOTATION[to_col]}{8 - to_row}" (Python indexes from 0)
to_square(to_row, to_col) == COL_NOTATION[to_col + 1] \o ToString(8 - to_row)

\* faulty variant: the capture flag is ignored
get_chess_notation_quiet(piece_type, from_row, from_col, to_row, to_col, is_capture) ==
    piece_symbols(piece_type) \o to_square(to_row, to_col)

get_chess_notation(piece_type, from_row, from_col, to_row, to_col, is_capture) ==
    IF piece_type = PAWN
    THEN IF is_capture
         THEN COL_NOTATION[from_col + 1] \o "x" \o to_square(to_row, to_col)
         ELSE to_square(to_row, to_col)
    ELSE piece_symbols(piece_type) \o (IF is_capture THEN "x" ELSE "")
            \o to_square(to_row, to_col)

\* the test of the innermost loop body: a move is appended to legal_moves
legal_move(grid, from_row, from_col, to_row, to_col, player, en_passant_target) ==
    /\ is_valid_move(grid, from_row, from_col, to_row, to_col, en_passant_target)
    /\ ~would_leave_king_in_check(grid, from_row, from_col, to_row, to_col, player).result

\* The list of (from_row, from_col, to_row, to_col) tuples, as the set of its
\* elements (the tuples of the list are pairwise different).
get_all_legal_moves(grid, player, en_passant_target) ==
    {m \in Rows \X Rows \X Rows \X Rows :
        /\ grid[m[1]][m[2]].type # NONE
        /\ grid[m[1]][m[2]].owner = player
        /\ legal_move(grid, m[1], m[2], m[3], m[4], player, en_passant_target)}

\* len(legal_moves) == 0: the four nested loops append nothing
no_legal_moves(grid, player, en_passant_target) ==
    \A from_row \in Rows, from_col \in Rows :
        (grid[from_row][from_col].type # NONE /\ grid[from_row][from_col].owner = player)
            => \A to_row \in Rows, to_col \in Rows :
                   ~legal_move(grid, from_row, from_col, to_row, to_col, player,
                               en_passant_target)

\* a checkmate test that counts every move is_valid_move accepts as a way
\* out, whether or not it leaves the king in check
is_checkmate_unfiltered(grid, player, en_passant_target) ==
    /\ is_in_check(grid, player)
    /\ \A m \in Rows \X Rows \X Rows \X Rows :
           (grid[m[1]][m[2]].type # NONE /\ grid[m[1]][m[2]].owner = player)
               => ~is_valid_move(grid, m[1], m[2], m[3], m[4], en_passant_target)

is_checkmate(grid, player, en_passant_target) ==
    IF ~is_in_check(grid, player) THEN FALSE
    ELSE no_legal_moves(grid, player, en_passant_target)

is_stalemate(grid, player, en_passant_target) ==
    IF is_in_check(grid, player) THEN FALSE
    ELSE no_legal_moves(grid, player, en_passant_target)

(***************************************************************************)
(* chessgame.py : ChessState.  A value of the class is a record "s" with   *)
(* the class's fields; a handler is an operator from the state before the  *)
(* call (and the call's arguments) to the state after it and the toast it  *)
(* returns.  The drag-highlight fields (dragging_piece_row/col) are        *)
(* presentation only and are left out.                                     *)
(***************************************************************************)
\* the field defaults of the class (default_factory of every rx.field)
ChessStateDefaults ==
    [grid |-> copy_board(create_default_board),
     current_player |-> WHITE,
     turn_validation_enabled |-> TRUE,
     game_over |-> FALSE,
     winner |-> "",
     white_king_moved |-> FALSE,
     white_kingside_rook_moved |-> FALSE,
     white_queenside_rook_moved |-> FALSE,
     black_king_moved |-> FALSE,
     black_kingside_rook_moved |-> FALSE,
     black_queenside_rook_moved |-> FALSE,
     en_passant_target |-> None,
     promotion_pending |-> FALSE,
     promotion_row |-> -1,
     promotion_col |-> -1,
     promotion_player |-> NONE,
     move_history |-> << >>,
     halfmove_clock |-> 0,
     position_history |-> << >>,
     captured_white_pieces |-> << >>,
     captured_black_pieces |-> << >>,
     board_history |-> << >>,
     player_history |-> << >>,
     captured_white_history |-> << >>,
     captured_black_history |-> << >>,
     en_passant_history |-> << >>,
     halfmove_clock_history |-> << >>,
     position_history_snapshots |-> << >>]

Result(s, toast) == [state |-> s, toast |-> toast]

\* faulty variant: only the board, the player and the game-over flag are reset
reset_grid_board_only(s) ==
    Result([s EXCEPT !.grid = copy_board(create_default_board),
                     !.current_player = WHITE,
                     !.game_over = FALSE],
           "Game reset! White starts.")

reset_grid(s) ==
    LET grid0 == copy_board(create_default_board)
    IN  Result([s EXCEPT
            !.grid = grid0,
            !.current_player = WHITE,
            !.game_over = FALSE,
            !.winner = "",
            !.move_history = << >>,
            !.halfmove_clock = 0,
            !.position_history = << >>,
            !.captured_white_pieces = << >>,
            !.captured_black_pieces = << >>,
            !.white_king_moved = FALSE,
            !.white_kingside_rook_moved = FALSE,
            !.white_queenside_rook_moved = FALSE,
            !.black_king_moved = FALSE,
            !.black_kingside_rook_moved = FALSE,
            !.black_queenside_rook_moved = FALSE,
            !.en_passant_target = None,
            !.promotion_pending = FALSE,
            !.promotion_row = -1,
            !.promotion_col = -1,
            !.promotion_player = NONE,
            !.board_history = <<copy_board(grid0)>>,
            !.player_history = <<WHITE>>,
            !.captured_white_history = << << >> >>,
            !.captured_black_history = << << >> >>,
            !.en_passant_history = <<None>>,
            !.halfmove_clock_history = <<0>>,
            !.position_history_snapshots = << << >> >>],
        "Game reset! White starts.")

toggle_turn_validation(s) ==
    LET s1 == [s EXCEPT !.turn_validation_enabled = ~s.turn_validation_enabled]
    IN  Result(s1, IF s1.turn_validation_enabled
                   THEN "Turn validation enabled"
                   ELSE "Turn validation disabled")

\* list.pop() and list[-1]
Pop(list) == SubSeq(list, 1, Len(list) - 1)

Last(list) == list[Len(list)]

\* the pops, and the restore from the snapshots that are then on top
undo_restore(s) ==
    LET board_history == Pop(s.board_history)
        player_history == Pop(s.player_history)
        captured_white_history == Pop(s.captured_white_history)
        captured_black_history == Pop(s.captured_black_history)
        en_passant_history == Pop(s.en_passant_history)
        halfmove_clock_history == Pop(s.halfmove_clock_history)
        position_history_snapshots == Pop(s.position_history_snapshots)
    IN  Result([s EXCEPT
            !.move_history = Pop(s.move_history),
            !.board_history = board_history,
            !.player_history = player_history,
            !.captured_white_history = captured_white_history,
            !.captured_black_history = captured_black_history,
            !.en_passant_history = en_passant_history,
            !.halfmove_clock_history = halfmove_clock_history,
            !.position_history_snapshots = position_history_snapshots,
            !.grid = copy_board(Last(board_history)),
            !.current_player = Last(player_history),
            !.captured_white_pieces = Last(captured_white_history),
            !.captured_black_pieces = Last(captured_black_history),
            !.en_passant_target = Last(en_passant_history),
            !.halfmove_clock = Last(halfmove_clock_history),
            !.position_history = Last(position_history_snapshots),
            !.game_over = FALSE,
            !.winner = ""],
        "Move undone!")

\* faulty variant: the game-over guard is missing
undo_last_move_after_game_over(s) ==
    IF Len(s.board_history) < 2 THEN Result(s, "No moves to undo!")
    ELSE undo_restore(s)

undo_last_move(s) ==
    IF Len(s.board_history) < 2 THEN Result(s, "No moves to undo!")
    ELSE IF s.game_over THEN Result(s, "Cannot undo after game is over!")
    \* move_history.pop() on an empty list raises IndexError before any field
    \* is written
    ELSE IF Len(s.move_history) = 0 THEN Result(s, "IndexError")
    ELSE undo_restore(s)

\* piece.type.value[0].lower(), upper-cased for White: "knight" and "king"
\* both give "k"
piece_char(piece) ==
    IF piece.type = NONE THEN "."
    ELSE LET lower == CASE piece.type = PAWN -> "p"
                        [] piece.type = KNIGHT -> "k"
                        [] piece.type = BISHOP -> "b"
                        [] piece.type = ROOK -> "r"
                        [] piece.type = QUEEN -> "q"
                        [] piece.type = KING -> "k"
             upper == CASE piece.type = PAWN -> "P"
                        [] piece.type = KNIGHT -> "K"
                        [] piece.type = BISHOP -> "B"
                        [] piece.type = ROOK -> "R"
                        [] piece.type = QUEEN -> "Q"
                        [] piece.type = KING -> "K"
         IN  IF piece.owner = WHITE THEN upper ELSE lower

row_str(row) ==
    piece_char(row[0]) \o piece_char(row[1]) \o piece_char(row[2]) \o piece_char(row[3])
        \o piece_char(row[4]) \o piece_char(row[5]) \o piece_char(row[6])
        \o piece_char(row[7])

get_position_string(s) ==
    LET board == row_str(s.grid[0]) \o "|" \o row_str(s.grid[1]) \o "|"
                 \o row_str(s.grid[2]) \o "|" \o row_str(s.grid[3]) \o "|"
                 \o row_str(s.grid[4]) \o "|" \o row_str(s.grid[5]) \o "|"
                 \o row_str(s.grid[6]) \o "|" \o row_str(s.grid[7])
        castling ==
            (IF ~s.white_king_moved /\ ~s.white_kingside_rook_moved THEN "K" ELSE "")
            \o (IF ~s.white_king_moved /\ ~s.white_queenside_rook_moved THEN "Q" ELSE "")
            \o (IF ~s.black_king_moved /\ ~s.black_kingside_rook_moved THEN "k" ELSE "")
            \o (IF ~s.black_king_moved /\ ~s.black_queenside_rook_moved THEN "q" ELSE "")
        en_passant ==
            IF s.en_passant_target = None THEN "none"
            ELSE ToString(s.en_passant_target[1]) \o "," \o ToString(s.en_passant_target[2])
    IN  board \o "|turn:" \o s.current_player \o "|castle:" \o castling
            \o "|ep:" \o en_passant

\* list.count(x)
Count(list, x) == Cardinality({i \in 1 .. Len(list) : list[i] = x})

check_threefold_repetition(s) ==
    LET current_position == get_position_string(s)
        count == Count(s.position_history, current_position)
    IN  count >= 2

\* faulty variant: the threshold is passed, not reached
check_fifty_move_rule_late(s) == s.halfmove_clock > 100

check_fifty_move_rule(s) == s.halfmove_clock >= 100

\* the method's "return" and "return None": no toast
NoToast == "None"

check_game_ending_conditions(s) ==
    IF s.game_over THEN Result(s, NoToast)
    ELSE IF check_fifty_move_rule(s)
         THEN Result([s EXCEPT !.game_over = TRUE, !.winner = "DRAW"],
                     "Draw by 50-move rule!")
    ELSE IF check_threefold_repetition(s)
         THEN Result([s EXCEPT !.game_over = TRUE, !.winner = "DRAW"],
                     "Draw by threefold repetition!")
    ELSE IF is_checkmate(s.grid, s.current_player, s.en_passant_target)
         THEN Result([s EXCEPT !.game_over = TRUE,
                               !.winner = IF s.current_player = WHITE
                                          THEN "BLACK" ELSE "WHITE"],
                     IF s.current_player = WHITE
                     THEN "Checkmate! Black wins!" ELSE "Checkmate! White wins!")
    ELSE IF is_stalemate(s.grid, s.current_player, s.en_passant_target)
         THEN Result([s EXCEPT !.game_over = TRUE, !.winner = "DRAW"],
                     "Stalemate! The game is a draw.")
    ELSE Result(s, NoToast)

\* One entry of move_history.  The source keeps the text
\* "{count}. {owner} {type} ({source_row},{source_col})->({row},{col}) [{notation}]";
\* the record keeps its parts, so that promote_pawn's replace of
\* "[Promotion]" acts on the bracketed part.
move_detail(move_count, piece_owner, piece_type, source_row, source_col, row, col, move_notation) ==
    [count |-> move_count, owner |-> piece_owner, type |-> piece_type,
     source |-> <<source_row, source_col>>, target |-> <<row, col>>,
     notation |-> move_notation]

switch_turn(s) ==
    IF s.turn_validation_enabled
    THEN [s EXCEPT !.current_player = enemy_player(s.current_player)]
    ELSE s

\* position_history.append(get_position_string()), after the turn switch
track_position(s) ==
    [s EXCEPT !.position_history = Append(s.position_history, get_position_string(s))]

\* faulty variant: nothing is saved
push_snapshot_skipped(s) == s

\* faulty variant: only the board is saved
push_snapshot_board_only(s) ==
    [s EXCEPT !.board_history = Append(s.board_history, copy_board(s.grid))]

\* the seven appends that save the state for undo
push_snapshot(s) ==
    [s EXCEPT
        !.board_history = Append(s.board_history, copy_board(s.grid)),
        !.player_history = Append(s.player_history, s.current_player),
        !.captured_white_history = Append(s.captured_white_history, s.captured_white_pieces),
        !.captured_black_history = Append(s.captured_black_history, s.captured_black_pieces),
        !.en_passant_history = Append(s.en_passant_history, s.en_passant_target),
        !.halfmove_clock_history = Append(s.halfmove_clock_history, s.halfmove_clock),
        !.position_history_snapshots =
            Append(s.position_history_snapshots, s.position_history)]

\* the symbol dictionary of promote_pawn: {...}.get(piece_type, "")
promotion_symbol(piece_type) ==
    CASE piece_type = QUEEN -> "Q"
      [] piece_type = ROOK -> "R"
      [] piece_type = BISHOP -> "B"
      [] piece_type = KNIGHT -> "N"
      [] OTHER -> ""

\* last_move.replace("[Promotion]", f"[{piece_symbol}]") on the last entry
replace_promotion(move_history, piece_type) ==
    IF Len(move_history) = 0 THEN move_history
    ELSE IF Last(move_history).notation = "Promotion"
         THEN [move_history EXCEPT ![Len(move_history)].notation =
                                        promotion_symbol(piece_type)]
         ELSE move_history

\* promote_pawn after its guard: the piece is placed and the half-move completed
promote_pawn_pending(s, piece_type) ==
    LET promoted_piece == Piece(piece_type, s.promotion_player)
        promotion_player == s.promotion_player
        s1 == [s EXCEPT
                  !.grid = SetSquare(s.grid, s.promotion_row, s.promotion_col,
                                     promoted_piece),
                  !.promotion_pending = FALSE,
                  !.promotion_row = -1,
                  !.promotion_col = -1,
                  !.promotion_player = NONE,
                  !.move_history = replace_promotion(s.move_history, piece_type),
                  !.halfmove_clock = 0]
        s2 == push_snapshot(track_position(switch_turn(s1)))
        opponent_in_check == is_in_check(s2.grid, enemy_player(promotion_player))
        ending == check_game_ending_conditions(s2)
    IN  IF ending.toast # NoToast THEN ending
        ELSE Result(ending.state,
                    "Pawn promoted to " \o piece_type \o "!"
                        \o (IF opponent_in_check THEN " - Check!" ELSE ""))

\* faulty variant: the guard is missing; the halfmove clock is reset, the
\* player switched and a snapshot pushed though no promotion is pending
promote_pawn_unguarded(s, piece_type) ==
    IF s.promotion_pending THEN promote_pawn_pending(s, piece_type)
    ELSE Result(push_snapshot(track_position(switch_turn([s EXCEPT !.halfmove_clock = 0]))),
                "Pawn promoted to " \o piece_type \o "!")

promote_pawn(s, piece_type) ==
    IF ~s.promotion_pending THEN Result(s, "No pawn promotion pending!")
    ELSE promote_pawn_pending(s, piece_type)

\* ChessState.is_valid_castling: the flags of the given player's side
state_is_valid_castling(s, from_row, from_col, to_row, to_col, player) ==
    IF player = WHITE
    THEN is_valid_castling(s.grid, from_row, from_col, to_row, to_col, player,
                           s.white_king_moved, s.white_kingside_rook_moved,
                           s.white_queenside_rook_moved)
    ELSE is_valid_castling(s.grid, from_row, from_col, to_row, to_col, player,
                           s.black_king_moved, s.black_kingside_rook_moved,
                           s.black_queenside_rook_moved)

\* captured_white_pieces.append(piece) or captured_black_pieces.append(piece),
\* chosen by the piece's owner
track_captured(s, piece) ==
    IF piece.owner = WHITE
    THEN [s EXCEPT !.captured_white_pieces = Append(s.captured_white_pieces, piece)]
    ELSE [s EXCEPT !.captured_black_pieces = Append(s.captured_black_pieces, piece)]

\* "Update castling rights when pieces move"
update_castling_rights(s, piece_type, piece_owner, source_col) ==
    IF piece_type = KING
    THEN IF piece_owner = WHITE
         THEN [s EXCEPT !.white_king_moved = TRUE]
         ELSE [s EXCEPT !.black_king_moved = TRUE]
    ELSE IF piece_type = ROOK
    THEN IF piece_owner = WHITE
         THEN IF source_col = 0 THEN [s EXCEPT !.white_queenside_rook_moved = TRUE]
              ELSE IF source_col = 7 THEN [s EXCEPT !.white_kingside_rook_moved = TRUE]
              ELSE s
         ELSE IF source_col = 0 THEN [s EXCEPT !.black_queenside_rook_moved = TRUE]
              ELSE IF source_col = 7 THEN [s EXCEPT !.black_kingside_rook_moved = TRUE]
              ELSE s
    ELSE s

\* faulty variant: a capture does not reset the clock
update_halfmove_clock_pawn_only(s, piece_type, is_capture) ==
    IF piece_type = PAWN
    THEN [s EXCEPT !.halfmove_clock = 0]
    ELSE [s EXCEPT !.halfmove_clock = s.halfmove_clock + 1]

\* "50-move rule: increment halfmove clock unless pawn move or capture"
update_halfmove_clock(s, piece_type, is_capture) ==
    IF piece_type = PAWN \/ is_capture
    THEN [s EXCEPT !.halfmove_clock = 0]
    ELSE [s EXCEPT !.halfmove_clock = s.halfmove_clock + 1]

\* the board and captured-list writes of the four execution branches
execute_on_board(s, source_row, source_col, row, col, moved_piece, destination_piece, is_castling, is_en_passant, is_promotion) ==
    LET placed == SetSquare(SetSquare(s.grid, row, col, moved_piece),
                            source_row, source_col, NO_PIECE)
    IN  IF is_castling
        THEN LET is_kingside == col > source_col
                 rook_from_col == IF is_kingside THEN 7 ELSE 0
                 rook_to_col == IF is_kingside THEN 5 ELSE 3
                 rook_piece == placed[source_row][rook_from_col]
             IN  [s EXCEPT !.grid =
                     SetSquare(SetSquare(placed, source_row, rook_to_col, rook_piece),
                               source_row, rook_from_col, NO_PIECE)]
        ELSE IF is_en_passant
        THEN LET captured_pawn_row == source_row
                 captured_pawn == placed[captured_pawn_row][col]
                 s1 == track_captured(s, captured_pawn)
             IN  [s1 EXCEPT !.grid = SetSquare(placed, captured_pawn_row, col, NO_PIECE)]
        ELSE IF is_promotion
        THEN LET s1 == IF destination_piece.type # NONE
                       THEN track_captured(s, destination_piece)
                       ELSE s
             IN  [s1 EXCEPT !.grid = placed,
                            !.promotion_pending = TRUE,
                            !.promotion_row = row,
                            !.promotion_col = col,
                            !.promotion_player = moved_piece.owner]
        ELSE [s EXCEPT !.grid = placed]

\* the toast of an accepted move that does not end the game
move_toast(move_notation, opponent_in_check, is_capture, is_en_passant, piece_owner, destination_piece) ==
    LET notation == move_notation \o (IF opponent_in_check THEN "+" ELSE "")
        check_msg == IF opponent_in_check THEN " - Check!" ELSE ""
    IN  IF is_capture
        THEN IF is_en_passant
             THEN notation \o " - Captured " \o enemy_player(piece_owner) \o " pawn!"
                      \o check_msg
             ELSE notation \o " - Captured " \o destination_piece.owner \o " "
                      \o destination_piece.type \o "!" \o check_msg
        ELSE notation \o check_msg

\* on_piece_drop from "Create the piece object" to its end: the move has
\* passed validation and is carried out.
execute_move(s, source_row, source_col, row, col, piece_type, piece_owner, destination_piece, is_castling, is_en_passant, is_promotion) ==
    LET moved_piece == Piece(piece_type, piece_owner)
        is_capture == \/ /\ ~is_castling
                         /\ destination_piece.type # NONE
                         /\ destination_piece.owner # piece_owner
                      \/ is_en_passant
        s1 == IF is_capture /\ ~is_en_passant /\ destination_piece.type # NONE
              THEN track_captured(s, destination_piece)
              ELSE s
        s2 == execute_on_board(s1, source_row, source_col, row, col, moved_piece,
                               destination_piece, is_castling, is_en_passant,
                               is_promotion)
        s3 == update_castling_rights(s2, piece_type, piece_owner, source_col)
        s4 == update_halfmove_clock(
                  [s3 EXCEPT !.en_passant_target =
                      get_en_passant_target(source_row, source_col, row, col,
                                            piece_type, piece_owner)],
                  piece_type, is_capture)
    IN  IF is_promotion
        THEN Result([s4 EXCEPT !.move_history =
                        Append(s4.move_history,
                               move_detail(Len(s4.move_history) + 1, piece_owner,
                                           piece_type, source_row, source_col, row, col,
                                           "Promotion"))],
                    "Choose piece for pawn promotion!")
        ELSE LET s5 == push_snapshot(track_position(switch_turn(s4)))
                 opponent_in_check == is_in_check(s5.grid, enemy_player(piece_owner))
                 move_notation ==
                     IF is_castling
                     THEN IF col > source_col THEN "O-O" ELSE "O-O-O"
                     ELSE IF is_en_passant
                     THEN COL_NOTATION[source_col + 1] \o "x" \o to_square(row, col)
                              \o " e.p."
                     ELSE get_chess_notation(piece_type, source_row, source_col, row, col,
                                             is_capture)
                 s6 == [s5 EXCEPT !.move_history =
                           Append(s5.move_history,
                                  move_detail(Len(s5.move_history) + 1, piece_owner,
                                              piece_type, source_row, source_col, row,
                                              col, move_notation))]
                 ending == check_game_ending_conditions(s6)
             IN  IF ending.toast # NoToast THEN ending
                 ELSE Result(ending.state,
                             move_toast(move_notation, opponent_in_check, is_capture,
                                        is_en_passant, piece_owner, destination_piece))

\* on_piece_drop(row, col, data) where data is the drag item of the piece on
\* (source_row, source_col): its coordinates, its type and its owner.
on_piece_drop(s, source_row, source_col, row, col) ==
    LET piece_type == s.grid[source_row][source_col].type
        piece_owner == s.grid[source_row][source_col].owner
        destination_piece == s.grid[row][col]
        is_castling == is_castling_move(s.grid, source_row, source_col, row, col)
        is_en_passant == is_en_passant_move(s.grid, source_row, source_col, row, col,
                                            s.en_passant_target)
        is_promotion == is_pawn_promotion(source_row, row, piece_type, piece_owner)
        castling == state_is_valid_castling(s, source_row, source_col, row, col,
                                            piece_owner)
        exposing == would_leave_king_in_check(s.grid, source_row, source_col, row, col,
                                              piece_owner)
    IN  IF s.game_over THEN Result(s, "Game is over! Reset to play again.")
        ELSE IF source_row = row /\ source_col = col THEN Result(s, "Move cancelled")
        ELSE IF s.turn_validation_enabled /\ piece_owner # s.current_player
             THEN Result(s, "It's " \o s.current_player \o "'s turn!")
        ELSE IF destination_piece.type # NONE /\ destination_piece.owner = piece_owner
             THEN Result(s, "Cannot capture your own piece!")
        ELSE IF is_castling
        THEN IF ~castling.result
             THEN Result([s EXCEPT !.grid = castling.grid], "Invalid castling move!")
             ELSE execute_move([s EXCEPT !.grid = castling.grid], source_row, source_col,
                               row, col, piece_type, piece_owner, destination_piece,
                               is_castling, is_en_passant, is_promotion)
        ELSE IF ~is_valid_move(s.grid, source_row, source_col, row, col,
                               s.en_passant_target)
             THEN Result(s, "Invalid move for this piece!")
        ELSE IF exposing.result
             THEN Result([s EXCEPT !.grid = exposing.grid],
                         "Cannot leave your king in check!")
        ELSE execute_move([s EXCEPT !.grid = exposing.grid], source_row, source_col,
                          row, col, piece_type, piece_owner, destination_piece,
                          is_castling, is_en_passant, is_promotion)

(***************************************************************************)
(* The players.  Each behaviour follows one game record: a proposal is one *)
(* of those the record offers for move number len(move_history) + 1.       *)
(***************************************************************************)
\* 1. f3 e5 2. g4 Qh4#.  Ply 1 also offers a drop on the piece's own square,
\* a Black piece, a capture of an own piece and a blocked rook move; ply 5 a
\* move after the game has ended.
FoolsMate ==
    <<{<<6, 5, 5, 5>>, <<6, 4, 6, 4>>, <<1, 4, 3, 4>>, <<7, 0, 6, 0>>, <<7, 0, 5, 0>>},
      {<<1, 4, 3, 4>>}, {<<6, 6, 4, 6>>}, {<<0, 3, 4, 7>>}, {<<6, 0, 5, 0>>}>>

\* 1. Nf3 Nf6 2. Ng1 Ng8 3. Nf3 Nf6 4. Ng1 Ng8 5. Nf3: the knights shuttle
Knights ==
    <<{<<7, 6, 5, 5>>}, {<<0, 6, 2, 5>>}, {<<5, 5, 7, 6>>}, {<<2, 5, 0, 6>>},
      {<<7, 6, 5, 5>>}, {<<0, 6, 2, 5>>}, {<<5, 5, 7, 6>>}, {<<2, 5, 0, 6>>},
      {<<7, 6, 5, 5>>}>>

\* 1. h4 g5 2. hxg5 h6 3. gxh6 a6 4. h7 a5 5. hxg8, then a4 or Nf3, then Nf3
Promotion ==
    <<{<<6, 7, 4, 7>>}, {<<1, 6, 3, 6>>}, {<<4, 7, 3, 6>>}, {<<1, 7, 2, 7>>},
      {<<3, 6, 2, 7>>}, {<<1, 0, 2, 0>>}, {<<2, 7, 1, 7>>}, {<<2, 0, 3, 0>>},
      {<<1, 7, 0, 6>>}, {<<3, 0, 4, 0>>, <<7, 6, 5, 5>>}, {<<7, 6, 5, 5>>}>>

\* 1. c3 f5 2. Qa4 f4 3. Na3 Kf7 4. Nc2 Kg6 5. Na3 Kg5 6. Nc2 Kg4 7. e4 fxe3 e.p.
\* 8. Qxg4: the capturing and the captured pawn both leave the fourth rank
\* between the queen on a4 and the king on g4
PinnedEnPassant ==
    <<{<<6, 2, 5, 2>>}, {<<1, 5, 3, 5>>}, {<<7, 3, 4, 0>>}, {<<3, 5, 4, 5>>},
      {<<7, 1, 5, 0>>}, {<<0, 4, 1, 5>>}, {<<5, 0, 6, 2>>}, {<<1, 5, 2, 6>>},
      {<<6, 2, 5, 0>>}, {<<2, 6, 3, 6>>}, {<<5, 0, 6, 2>>}, {<<3, 6, 4, 6>>},
      {<<6, 4, 4, 4>>}, {<<4, 5, 5, 4>>, <<1, 7, 2, 7>>}, {<<4, 0, 4, 6>>}>>

\* 1. e3 a6 2. Ke2 a5 3. Kd3 a4 4. c4 h6 5. c5 h5 6. Ke4 d5+ 7. cxd6 e.p., Kd3 or h3:
\* the pawn that gives check can be taken en passant; h3 leaves the check on
CheckingPawn ==
    <<{<<6, 4, 5, 4>>}, {<<1, 0, 2, 0>>}, {<<7, 4, 6, 4>>}, {<<2, 0, 3, 0>>},
      {<<6, 4, 5, 3>>}, {<<3, 0, 4, 0>>}, {<<6, 2, 4, 2>>}, {<<1, 7, 2, 7>>},
      {<<4, 2, 3, 2>>}, {<<2, 7, 3, 7>>}, {<<5, 3, 4, 4>>}, {<<1, 3, 3, 3>>},
      {<<3, 2, 2, 3>>, <<4, 4, 5, 3>>, <<6, 7, 5, 7>>}>>

\* 1. e4 e5 2. Nf3 Nc6 3. Bc4 (or O-O past the bishop) Bc5 4. O-O Nf6 5. d3 O-O
\* 6. Nxe5
Castling ==
    <<{<<6, 4, 4, 4>>}, {<<1, 4, 3, 4>>}, {<<7, 6, 5, 5>>}, {<<0, 1, 2, 2>>},
      {<<7, 5, 4, 2>>, <<7, 4, 7, 6>>}, {<<0, 5, 3, 2>>}, {<<7, 4, 7, 6>>},
      {<<0, 6, 2, 5>>}, {<<6, 3, 5, 3>>}, {<<0, 4, 0, 6>>}, {<<5, 5, 3, 4>>}>>

\* 1. d4 d6 2. Qd2 e5 3. a4 e4 4. Qf4 f5 5. h3 Be7 6. Qh2 Be6 7. Ra3 c5 8. Rg3 Qa5+
\* 9. Nd2 Bh4 10. f3 Bb3 11. d5 e3 12. c4 f4: White has no move
Stalemate ==
    <<{<<6, 3, 4, 3>>}, {<<1, 3, 2, 3>>}, {<<7, 3, 6, 3>>}, {<<1, 4, 3, 4>>},
      {<<6, 0, 4, 0>>}, {<<3, 4, 4, 4>>}, {<<6, 3, 4, 5>>}, {<<1, 5, 3, 5>>},
      {<<6, 7, 5, 7>>}, {<<0, 5, 1, 4>>}, {<<4, 5, 6, 7>>}, {<<0, 2, 2, 4>>},
      {<<7, 0, 5, 0>>}, {<<1, 2, 3, 2>>}, {<<5, 0, 5, 6>>}, {<<0, 3, 3, 0>>},
      {<<7, 1, 6, 3>>}, {<<1, 4, 4, 7>>}, {<<6, 5, 5, 5>>}, {<<2, 4, 5, 1>>},
      {<<4, 3, 3, 3>>}, {<<4, 4, 5, 4>>}, {<<6, 2, 4, 2>>}, {<<3, 5, 4, 5>>}>>

\* 1. f3 Nc6 2. g4 e5, then 99 knight moves that never bring a position back,
\* then 52... Qh4#: the mating move is the 100th half-move without a pawn
\* move or capture
FiftyMoves ==
    <<{<<6, 5, 5, 5>>}, {<<0, 1, 2, 2>>}, {<<6, 6, 4, 6>>}, {<<1, 4, 3, 4>>},
      {<<7, 1, 5, 2>>}, {<<2, 2, 4, 3>>}, {<<5, 2, 7, 1>>}, {<<4, 3, 5, 1>>},
      {<<7, 1, 5, 2>>}, {<<5, 1, 3, 0>>}, {<<5, 2, 4, 0>>}, {<<3, 0, 2, 2>>},
      {<<4, 0, 3, 2>>}, {<<2, 2, 0, 1>>}, {<<3, 2, 2, 0>>}, {<<0, 1, 2, 2>>},
      {<<2, 0, 4, 1>>}, {<<2, 2, 0, 1>>}, {<<4, 1, 3, 3>>}, {<<0, 1, 2, 2>>},
      {<<3, 3, 5, 4>>}, {<<2, 2, 4, 1>>}, {<<5, 4, 3, 3>>}, {<<4, 1, 2, 0>>},
      {<<3, 3, 4, 5>>}, {<<2, 0, 4, 1>>}, {<<4, 5, 5, 7>>}, {<<4, 1, 3, 3>>},
      {<<5, 7, 4, 5>>}, {<<3, 3, 1, 4>>}, {<<4, 5, 2, 4>>}, {<<1, 4, 3, 5>>},
      {<<2, 4, 3, 2>>}, {<<3, 5, 5, 6>>}, {<<3, 2, 5, 3>>}, {<<5, 6, 3, 5>>},
      {<<5, 3, 4, 1>>}, {<<3, 5, 5, 4>>}, {<<4, 1, 5, 3>>}, {<<5, 4, 4, 2>>},
      {<<5, 3, 6, 5>>}, {<<4, 2, 2, 1>>}, {<<6, 5, 5, 3>>}, {<<2, 1, 4, 0>>},
      {<<5, 3, 4, 5>>}, {<<4, 0, 5, 2>>}, {<<4, 5, 2, 4>>}, {<<5, 2, 4, 4>>},
      {<<2, 4, 4, 5>>}, {<<4, 4, 6, 5>>}, {<<4, 5, 5, 3>>}, {<<6, 5, 4, 4>>},
      {<<5, 3, 4, 1>>}, {<<4, 4, 6, 5>>}, {<<4, 1, 3, 3>>}, {<<6, 5, 5, 7>>},
      {<<3, 3, 4, 1>>}, {<<5, 7, 3, 6>>}, {<<4, 1, 5, 3>>}, {<<3, 6, 2, 4>>},
      {<<5, 3, 6, 5>>}, {<<2, 4, 3, 6>>}, {<<6, 5, 4, 4>>}, {<<3, 6, 5, 7>>},
      {<<4, 4, 3, 6>>}, {<<5, 7, 6, 5>>}, {<<3, 6, 5, 7>>}, {<<6, 5, 4, 4>>},
      {<<5, 7, 6, 5>>}, {<<4, 4, 2, 5>>}, {<<6, 5, 4, 4>>}, {<<2, 5, 3, 3>>},
      {<<4, 4, 5, 2>>}, {<<3, 3, 2, 1>>}, {<<5, 2, 7, 1>>}, {<<2, 1, 3, 3>>},
      {<<7, 1, 5, 0>>}, {<<3, 3, 4, 1>>}, {<<5, 0, 3, 1>>}, {<<4, 1, 2, 0>>},
      {<<3, 1, 5, 0>>}, {<<2, 0, 3, 2>>}, {<<5, 0, 3, 1>>}, {<<3, 2, 5, 1>>},
      {<<3, 1, 5, 0>>}, {<<5, 1, 4, 3>>}, {<<5, 0, 3, 1>>}, {<<4, 3, 2, 2>>},
      {<<3, 1, 5, 0>>}, {<<2, 2, 1, 4>>}, {<<5, 0, 7, 1>>}, {<<1, 4, 3, 5>>},
      {<<7, 1, 5, 2>>}, {<<3, 5, 2, 3>>}, {<<5, 2, 4, 0>>}, {<<2, 3, 4, 4>>},
      {<<4, 0, 2, 1>>}, {<<4, 4, 3, 6>>}, {<<2, 1, 4, 2>>}, {<<3, 6, 5, 7>>},
      {<<4, 2, 5, 4>>}, {<<5, 7, 4, 5>>}, {<<5, 4, 4, 2>>}, {<<0, 3, 4, 7>>}>>

\* 1. Nf3 Nf6 2. Nd4 Ng4 3. e4 Nxf2 4. Be2 Nxh1 5. a4 Ng3 6. Ra3 Nh5 7. Rf3 Nf6
\* 8. Rf1 Ng8 9. Rh1 a6 10. O-O: the rook from a1 takes the place of the rook
\* captured on h1, and White castles with it
ReplacedRook ==
    <<{<<7, 6, 5, 5>>}, {<<0, 6, 2, 5>>}, {<<5, 5, 4, 3>>}, {<<2, 5, 4, 6>>},
      {<<6, 4, 4, 4>>}, {<<4, 6, 6, 5>>}, {<<7, 5, 6, 4>>}, {<<6, 5, 7, 7>>},
      {<<6, 0, 4, 0>>}, {<<7, 7, 5, 6>>}, {<<7, 0, 5, 0>>}, {<<5, 6, 3, 7>>},
      {<<5, 0, 5, 5>>}, {<<3, 7, 2, 5>>}, {<<5, 5, 7, 5>>}, {<<2, 5, 0, 6>>},
      {<<7, 5, 7, 7>>}, {<<1, 0, 2, 0>>}, {<<7, 4, 7, 6>>}>>

\* 1. a4 a6 2. Ra3 a5 3. Rh3 b6 4. Rg3 (or 4. e3): the rook from a1 leaves
\* the h-file while the rook on h1 has not moved
WanderingRook ==
    <<{<<6, 0, 4, 0>>}, {<<1, 0, 2, 0>>}, {<<7, 0, 5, 0>>}, {<<2, 0, 3, 0>>},
      {<<5, 0, 5, 7>>}, {<<1, 1, 2, 1>>}, {<<5, 7, 5, 6>>, <<6, 4, 5, 4>>}>>

\* 1. e3 g6 2. Qg4 Bg7 3. Qh4 Nh6 4. Nc3 c6 5. Nd5 Qa5 6. Qxe7, a mate: the
\* queen is guarded by the knight, and d8 and f8 are attacked by the queen;
\* then Black tries to castle out of the check, or to take the knight
CastlingEscape ==
    <<{<<6, 4, 5, 4>>}, {<<1, 6, 2, 6>>}, {<<7, 3, 4, 6>>}, {<<0, 5, 1, 6>>},
      {<<4, 6, 4, 7>>}, {<<0, 6, 2, 7>>}, {<<7, 1, 5, 2>>}, {<<1, 2, 2, 2>>},
      {<<5, 2, 3, 3>>}, {<<0, 3, 3, 0>>}, {<<4, 7, 1, 4>>},
      {<<0, 4, 0, 6>>, <<2, 2, 3, 3>>}>>

\* 1. h4 f6 2. h5 a6 3. h6 a5 4. hxg7 a4 5. e3 a3 6. gxh8 and, before a piece
\* is chosen for the pawn on h8, Qh5 mate
MateBeforeChoice ==
    <<{<<6, 7, 4, 7>>}, {<<1, 5, 2, 5>>}, {<<4, 7, 3, 7>>}, {<<1, 0, 2, 0>>},
      {<<3, 7, 2, 7>>}, {<<2, 0, 3, 0>>}, {<<2, 7, 1, 6>>}, {<<3, 0, 4, 0>>},
      {<<6, 4, 5, 4>>}, {<<4, 0, 5, 0>>}, {<<1, 6, 0, 7>>}, {<<7, 3, 3, 7>>}>>

\* 1. e4, then d2 to e3 (the square the e-pawn has jumped) or 1... d5, then
\* 2. exd5 or 2. e5 f5 3. exf6 e.p.
OwnEnPassant ==
    <<{<<6, 4, 4, 4>>}, {<<6, 3, 5, 4>>, <<1, 3, 3, 3>>}, {<<4, 4, 3, 3>>, <<4, 4, 3, 4>>},
      {<<1, 5, 3, 5>>}, {<<3, 4, 2, 5>>}>>

\* the short games, and the long ones
Games ==
    <<FoolsMate, Knights, Promotion, PinnedEnPassant, CheckingPawn, Castling, OwnEnPassant>>

LongGames ==
    <<Stalemate, FiftyMoves, ReplacedRook, WanderingRook, CastlingEscape, MateBeforeChoice>>

AllGames == Games \o LongGames

\* the piece types the promotion dialog's four buttons send
PromotionChoices == {QUEEN, ROOK, BISHOP, KNIGHT}

\* the turn-validation button is pressed only while the move list holds at
\* most this many moves
ToggleUntil == 0

\* the Undo button is pressed at most this many times in a row
MaxUndoRun == 1

(***************************************************************************)
(* State                                                                   *)
(***************************************************************************)
VARIABLES
    cs,          \* the ChessState object
    game,        \* the game record the players follow
    last,        \* the last handler call: its name and the toast it returned
    start,       \* the restorable part of cs before the proposal of the
                 \* half-move in progress or completed last
    run,         \* completed half-moves in a row without pawn move or capture
    runs,        \* run after each completed half-move that is not undone
    undo_run,    \* presses of Undo since the last accepted move, choice or reset
    reset_done   \* reset_grid has been called

vars == <<cs, game, last, start, run, runs, undo_run, reset_done>>

Call(op, toast) == [op |-> op, toast |-> toast]

Offered == IF Len(cs.move_history) < Len(AllGames[game])
           THEN AllGames[game][Len(cs.move_history) + 1]
           ELSE {}

\* the toasts with which on_piece_drop turns a proposal down
DropRejections ==
    {"Game is over! Reset to play again.", "Move cancelled", "It's W's turn!",
     "It's B's turn!", "Cannot capture your own piece!", "Invalid castling move!",
     "Invalid move for this piece!", "Cannot leave your king in check!"}

\* the fields undo_last_move restores from the snapshot stacks
Restorable(s) ==
    [grid |-> s.grid,
     current_player |-> s.current_player,
     captured_white_pieces |-> s.captured_white_pieces,
     captured_black_pieces |-> s.captured_black_pieces,
     en_passant_target |-> s.en_passant_target,
     halfmove_clock |-> s.halfmove_clock,
     position_history |-> s.position_history]

PieceCount(grid) ==
    Cardinality({sq \in Rows \X Rows : grid[sq[1]][sq[2]].type # NONE})

InitGame(gs) ==
    /\ cs = ChessStateDefaults
    /\ game \in gs
    /\ last = Call("init", NoToast)
    /\ start = Restorable(ChessStateDefaults)
    /\ run = 0
    /\ runs = <<0>>
    /\ undo_run = 0
    /\ reset_done = FALSE

Init == InitGame(1 .. Len(Games))

\* a piece is dragged from one square and dropped on another; r is what the
\* handler returns
OnPieceDrop ==
    \E m \in Offered :
        /\ cs.grid[m[1]][m[2]].type # NONE
        /\ \E r \in {on_piece_drop(cs, m[1], m[2], m[3], m[4])} :
            LET accepted == r.toast \notin DropRejections
                completed == accepted /\ r.toast # "Choose piece for pawn promotion!"
                quiet == /\ cs.grid[m[1]][m[2]].type # PAWN
                         /\ PieceCount(r.state.grid) = PieceCount(cs.grid)
                next_run == IF ~accepted THEN run ELSE IF quiet THEN run + 1 ELSE 0
            IN  /\ cs' = r.state
                /\ last' = Call("on_piece_drop", r.toast)
                /\ start' = IF accepted /\ ~cs.promotion_pending
                            THEN Restorable(cs) ELSE start
                /\ run' = next_run
                /\ runs' = IF completed THEN Append(runs, next_run) ELSE runs
                /\ undo_run' = IF accepted THEN 0 ELSE undo_run
                /\ UNCHANGED <<game, reset_done>>

\* a button of the promotion dialog
PromotePawn ==
    \E piece_type \in PromotionChoices :
        \E r \in {promote_pawn(cs, piece_type)} :
            /\ cs' = r.state
            /\ last' = Call("promote_pawn", r.toast)
            /\ run' = IF cs.promotion_pending THEN 0 ELSE run
            /\ runs' = IF cs.promotion_pending THEN Append(runs, 0) ELSE runs
            /\ undo_run' = IF cs.promotion_pending THEN 0 ELSE undo_run
            /\ UNCHANGED <<game, start, reset_done>>

\* the Undo button
UndoLastMove ==
    /\ undo_run < MaxUndoRun
    /\ \E r \in {undo_last_move(cs)} :
        LET accepted == r.toast = "Move undone!"
        IN  /\ cs' = r.state
            /\ last' = Call("undo_last_move", r.toast)
            /\ start' = IF accepted THEN Restorable(r.state) ELSE start
            /\ runs' = IF accepted THEN Pop(runs) ELSE runs
            /\ run' = IF accepted THEN Last(Pop(runs)) ELSE run
    /\ undo_run' = undo_run + 1
    /\ UNCHANGED <<game, reset_done>>

\* the Reset button
ResetGrid ==
    \E r \in {reset_grid(cs)} :
        /\ cs' = r.state
        /\ last' = Call("reset_grid", r.toast)
        /\ start' = Restorable(r.state)
        /\ run' = 0
        /\ runs' = <<0>>
        /\ undo_run' = 0
        /\ reset_done' = TRUE
        /\ UNCHANGED game

\* the turn-validation button
ToggleTurnValidation ==
    /\ Len(cs.move_history) <= ToggleUntil
    /\ \E r \in {toggle_turn_validation(cs)} :
        /\ cs' = r.state
        /\ last' = Call("toggle_turn_validation", r.toast)
    /\ UNCHANGED <<game, start, run, runs, undo_run, reset_done>>

Next ==
    \/ OnPieceDrop
    \/ PromotePawn
    \/ UndoLastMove
    \/ ResetGrid
    \/ ToggleTurnValidation

Spec == Init /\ [][Next]_vars

\* the long games, played with moves, undo and reset
InitLong == InitGame((Len(Games) + 1) .. Len(AllGames))

NextLong ==
    \/ OnPieceDrop
    \/ UndoLastMove
    \/ ResetGrid

SpecLong == InitLong /\ [][NextLong]_vars

(***************************************************************************)
(* Properties                                                              *)
(***************************************************************************)
\* the last call was accepted and completed a half-move: a move that is not
\* a pawn's move onto its far rank, or a promotion choice
HalfMoveCompleted ==
    \/ /\ last.op = "on_piece_drop"
       /\ last.toast \notin DropRejections
       /\ last.toast # "Choose piece for pawn promotion!"
    \/ /\ last.op = "promote_pawn"
       /\ last.toast # "No pawn promotion pending!"

\* on_piece_drop accepts the proposal m in state s
Accepts(s, m) == on_piece_drop(s, m[1], m[2], m[3], m[4]).toast \notin DropRejections

\* the board after the move is fully executed: the piece relocated and, for
\* en passant, the captured pawn removed
FullyExecuted(grid, m, en_passant_target) ==
    LET moved == MoveApplied(grid, m[1], m[2], m[3], m[4])
    IN  IF is_en_passant_move(grid, m[1], m[2], m[3], m[4], en_passant_target)
        THEN SetSquare(moved, m[1], m[4], NO_PIECE)
        ELSE moved

\* how often the repetition key of the position just reached occurs in the
\* game, the position just reached included
Occurrences == Count(cs.position_history, Last(cs.position_history))

\* the seven history stacks
Stacks(s) ==
    <<s.board_history, s.player_history, s.captured_white_history,
      s.captured_black_history, s.en_passant_history, s.halfmove_clock_history,
      s.position_history_snapshots>>

\* the snapshot of the live state
Snapshot(s) ==
    <<s.grid, s.current_player, s.captured_white_pieces, s.captured_black_pieces,
      s.en_passant_target, s.halfmove_clock, s.position_history>>

\* C1 (as stated): for every offered non-castling move of the active player
\* that is_valid_move accepts, on_piece_drop accepts the move if and only if
\* the mover's king is not attacked on the board that results from fully
\* executing it (for en passant, with the captured pawn removed).
C1_OwnKingSafety ==
    \A m \in Offered :
        LET piece == cs.grid[m[1]][m[2]]
        IN  (/\ ~cs.game_over
             /\ piece.type # NONE
             /\ piece.owner = cs.current_player
             /\ ~is_castling_move(cs.grid, m[1], m[2], m[3], m[4])
             /\ is_valid_move(cs.grid, m[1], m[2], m[3], m[4], cs.en_passant_target))
            => (Accepts(cs, m)
                    <=> ~is_in_check(FullyExecuted(cs.grid, m, cs.en_passant_target),
                                     piece.owner))

\* C2 (as stated): after a completed half-move the game is drawn by
\* repetition if and only if the repetition key of the position just reached
\* has occurred at least three times, the current position included.
C2_ThreefoldRepetition ==
    HalfMoveCompleted
        => ((cs.game_over /\ last.toast = "Draw by threefold repetition!")
                <=> Occurrences >= 3)

\* C3 (as stated): after reset, when the last accepted operation completed a
\* half-move, no promotion is pending and the game is not over,
\* undo_last_move leaves board, active player, both captured lists,
\* en-passant target, halfmove clock and repetition keys as they were before
\* that half-move was proposed, and leaves game_over false.
C3_UndoRoundTrip ==
    (reset_done /\ HalfMoveCompleted /\ ~cs.promotion_pending /\ ~cs.game_over)
        => LET u == undo_last_move(cs)
           IN  /\ u.toast = "Move undone!"
               /\ Restorable(u.state) = start
               /\ ~u.state.game_over

\* C4: with fewer than two snapshots on the stack, or with the game over,
\* undo_last_move is refused and changes no field of the state.
C4_UndoRefused ==
    (Len(cs.board_history) < 2 \/ cs.game_over)
        => LET u == undo_last_move(cs)
           IN  /\ u.toast \in {"No moves to undo!", "Cannot undo after game is over!"}
               /\ u.state = cs

C4_Witness ==
    /\ last = Call("undo_last_move", "Cannot undo after game is over!")
    /\ cs.game_over
    /\ Len(cs.board_history) >= 2

\* C5: a proposal that on_piece_drop rejects (game over, wrong turn, own
\* piece on the destination, illegal geometry or blocked path, own king
\* exposed, illegal castling) changes no field of the state.
C5_RejectedProposal ==
    \A m \in Offered :
        cs.grid[m[1]][m[2]].type # NONE
            => LET r == on_piece_drop(cs, m[1], m[2], m[3], m[4])
               IN  r.toast \in DropRejections => r.state = cs

C5_Witness ==
    /\ last = Call("on_piece_drop", "Cannot leave your king in check!")
    /\ is_in_check(cs.grid, cs.current_player)

\* C6: reset_grid takes every reachable state to the same state: the
\* starting board, White to move, game not over and no winner, no promotion
\* pending, the six castling flags cleared, no en-passant target, halfmove
\* clock 0, empty captured lists, move list and repetition list, and each
\* history stack holding the one initial snapshot (the turn-validation
\* switch, which is a setting and not part of the game, stays as it is);
\* a second reset changes nothing.
C6_ResetCanonical ==
    LET r == reset_grid(cs).state
    IN  /\ r.grid = create_default_board
        /\ r.current_player = WHITE
        /\ ~r.game_over
        /\ r.winner = ""
        /\ ~r.promotion_pending
        /\ ~r.white_king_moved
        /\ ~r.white_kingside_rook_moved
        /\ ~r.white_queenside_rook_moved
        /\ ~r.black_king_moved
        /\ ~r.black_kingside_rook_moved
        /\ ~r.black_queenside_rook_moved
        /\ r.en_passant_target = None
        /\ r.halfmove_clock = 0
        /\ r.captured_white_pieces = << >>
        /\ r.captured_black_pieces = << >>
        /\ r.move_history = << >>
        /\ r.position_history = << >>
        /\ Stacks(r) = <<<<create_default_board>>, <<WHITE>>, << << >> >>, << << >> >>,
                         <<None>>, <<0>>, << << >> >> >>
        /\ r = [reset_grid(ChessStateDefaults).state EXCEPT
                   !.turn_validation_enabled = cs.turn_validation_enabled]
        /\ reset_grid(r).state = r

C6_Witness ==
    /\ cs.promotion_pending
    /\ Len(cs.board_history) > 1
    /\ ~cs.turn_validation_enabled
    /\ ~reset_grid(cs).state.promotion_pending

\* C7: after a completed half-move with the halfmove clock at 100 or more
\* the game is over with winner DRAW by the 50-move rule, whatever the
\* position (a mating move that brings the clock to 100 gives a draw); and
\* the 50-move rule ends no game with the clock below 100.
C7_FiftyMoveRule ==
    HalfMoveCompleted
        => /\ cs.halfmove_clock >= 100
                => /\ cs.game_over
                   /\ cs.winner = "DRAW"
                   /\ last.toast = "Draw by 50-move rule!"
           /\ last.toast = "Draw by 50-move rule!" => cs.halfmove_clock >= 100

C7_Witness ==
    /\ last = Call("on_piece_drop", "Draw by 50-move rule!")
    /\ cs.winner = "DRAW"
    /\ is_checkmate(cs.grid, cs.current_player, cs.en_passant_target)

\* C8: the halfmove clock is the number of completed half-moves in a row
\* since the last pawn move, capture, promotion choice or reset: an accepted
\* move of a pawn or a capture (the board loses a piece) sets it to 0, any
\* other accepted move adds 1, promote_pawn sets it to 0.
C8_HalfmoveClock == cs.halfmove_clock = run

C8_Witness ==
    /\ last = Call("on_piece_drop", "O-O")
    /\ cs.halfmove_clock = 5

\* C9 (as stated): after a completed half-move to which neither draw rule
\* applies (clock below 100, fewer than three occurrences of the position),
\* the game is over with the mover as winner iff the side to move is in
\* check and has no legal move, is over as a draw iff the side to move is
\* not in check and has no legal move, and is otherwise not over.
C9_CheckmateStalemate ==
    (HalfMoveCompleted /\ cs.halfmove_clock < 100 /\ Occurrences < 3)
        => LET side == cs.current_player
               mover == IF Last(cs.move_history).owner = WHITE THEN "WHITE" ELSE "BLACK"
               in_check == is_in_check(cs.grid, side)
               none == get_all_legal_moves(cs.grid, side, cs.en_passant_target) = {}
           IN  /\ (cs.game_over /\ cs.winner = mover) <=> (in_check /\ none)
               /\ (cs.game_over /\ cs.winner = "DRAW") <=> (~in_check /\ none)
               /\ ~none => ~cs.game_over

\* what C10 says of an accepted pawn move onto the far rank
PromotionEntered(s, m) ==
    LET r == on_piece_drop(s, m[1], m[2], m[3], m[4])
    IN  r.toast = "Choose piece for pawn promotion!"
            => /\ r.state.grid[m[3]][m[4]] = s.grid[m[1]][m[2]]
               /\ r.state.grid[m[1]][m[2]] = NO_PIECE
               /\ r.state.promotion_pending
               /\ r.state.promotion_row = m[3]
               /\ r.state.promotion_col = m[4]
               /\ r.state.promotion_player = s.grid[m[1]][m[2]].owner
               /\ r.state.current_player = s.current_player
               /\ Stacks(r.state) = Stacks(s)
               /\ r.state.game_over = s.game_over
               /\ r.state.winner = s.winner

\* what C10 says of the promotion choice, but for the active player, which
\* is next_player after it
PromotionChosen(s, piece_type, next_player) ==
    LET r == promote_pawn(s, piece_type)
        verdict == check_game_ending_conditions(
                       [r.state EXCEPT !.game_over = s.game_over, !.winner = s.winner])
    IN  /\ r.state.grid = SetSquare(s.grid, s.promotion_row, s.promotion_col,
                                    Piece(piece_type, s.promotion_player))
        /\ ~r.state.promotion_pending
        /\ r.state.current_player = next_player
        /\ \A i \in 1 .. 7 :
               Stacks(r.state)[i] = Append(Stacks(s)[i], Snapshot(r.state)[i])
        /\ r.state.game_over = verdict.state.game_over
        /\ r.state.winner = verdict.state.winner

\* C10 (as stated): an accepted pawn move onto the far rank puts the pawn on
\* its destination, sets the pending square and owner, and neither switches
\* the player nor pushes a snapshot nor evaluates termination; the promotion
\* choice then puts the chosen piece of the pending owner on the pending
\* square, clears the pending state, switches the active player, pushes one
\* snapshot and evaluates termination.
C10_PromotionProtocol ==
    /\ \A m \in Offered :
           cs.grid[m[1]][m[2]].type # NONE => PromotionEntered(cs, m)
    /\ cs.promotion_pending
           => \A piece_type \in PromotionChoices :
                  PromotionChosen(cs, piece_type, enemy_player(cs.current_player))

\* C10 (amended): as above, but the promotion choice switches the active
\* player only if turn validation is enabled; with turn validation disabled
\* the active player stays as it is.
C10_PromotionProtocolValidated ==
    /\ \A m \in Offered :
           cs.grid[m[1]][m[2]].type # NONE => PromotionEntered(cs, m)
    /\ cs.promotion_pending
           => \A piece_type \in PromotionChoices :
                  PromotionChosen(cs, piece_type,
                                  IF cs.turn_validation_enabled
                                  THEN enemy_player(cs.current_player)
                                  ELSE cs.current_player)

C10_Witness ==
    /\ last.op = "promote_pawn"
    /\ last.toast # "No pawn promotion pending!"
    /\ ~cs.promotion_pending
    /\ ~cs.turn_validation_enabled
    /\ cs.grid[0][6] = Piece(KNIGHT, WHITE)

\* C11: promote_pawn called while no promotion is pending is rejected with
\* "No pawn promotion pending!" and changes no field of the state, whatever
\* piece type is chosen.
C11_PromotionNotPending ==
    ~cs.promotion_pending
        => \A piece_type \in PromotionChoices :
               promote_pawn(cs, piece_type) = Result(cs, "No pawn promotion pending!")

C11_Witness ==
    /\ last = Call("promote_pawn", "No pawn promotion pending!")
    /\ Len(cs.board_history) > 1
    /\ cs.halfmove_clock > 0

\* the moves of get_all_legal_moves that start on a piece of the given type
MovesOf(grid, moves, piece_type) == {m \in moves : grid[m[1]][m[2]].type = piece_type}

\* C18: whenever the board is the starting position, get_all_legal_moves
\* returns exactly 20 moves for White, 16 of pawns and 4 of knights, and
\* exactly 20 for Black, 16 of pawns and 4 of knights.
C18_StartingMoves ==
    cs.grid = create_default_board
        => \A player \in {WHITE, BLACK} :
               LET moves == get_all_legal_moves(cs.grid, player, cs.en_passant_target)
               IN  /\ Cardinality(moves) = 20
                   /\ Cardinality(MovesOf(cs.grid, moves, PAWN)) = 16
                   /\ Cardinality(MovesOf(cs.grid, moves, KNIGHT)) = 4

C18_Witness ==
    /\ cs.grid = create_default_board
    /\ last = Call("reset_grid", "Game reset! White starts.")
    /\ cs.en_passant_target = None
    /\ get_all_legal_moves(cs.grid, WHITE, None) # {}

\* f2-f3, e7-e5, g2-g4, Qd8-h4
FoolsMateMoves == <<<<6, 5, 5, 5>>, <<1, 4, 3, 4>>, <<6, 6, 4, 6>>, <<0, 3, 4, 7>>>>

\* the board after the first n of the moves, each made as the test makes it:
\* the piece is written on its target and its source is emptied
RECURSIVE Played(_, _, _)
Played(grid, moves, n) ==
    IF n = 0 THEN grid
    ELSE LET before == Played(grid, moves, n - 1)
         IN  MoveApplied(before, moves[n][1], moves[n][2], moves[n][3], moves[n][4])

\* C19: whenever the board is the one that f2-f3, e7-e5, g2-g4, Qd8-h4 lead
\* to from the starting position, is_checkmate(White) is true,
\* is_checkmate(Black) is false and is_in_check(White) is true; and whenever
\* the first three of these moves have been played through on_piece_drop,
\* the drop of the queen on h4 is accepted and leads to that board, and with
\* turn validation enabled (as it is from construction) it sets game_over
\* with winner BLACK.
C19_FoolsMate ==
    /\ cs.grid = Played(create_default_board, FoolsMateMoves, 4)
           => /\ is_checkmate(cs.grid, WHITE, None)
              /\ ~is_checkmate(cs.grid, BLACK, None)
              /\ is_in_check(cs.grid, WHITE)
    /\ (/\ cs.grid = Played(create_default_board, FoolsMateMoves, 3)
        /\ Len(cs.move_history) = 3)
           => LET r == on_piece_drop(cs, 0, 3, 4, 7)
              IN  /\ r.state.grid = Played(create_default_board, FoolsMateMoves, 4)
                  /\ cs.turn_validation_enabled
                         => (r.state.game_over /\ r.state.winner = "BLACK")

C19_Witness ==
    /\ last = Call("on_piece_drop", "Checkmate! Black wins!")
    /\ cs.grid = Played(create_default_board, FoolsMateMoves, 4)
    /\ Len(cs.move_history) = 4
    /\ cs.turn_validation_enabled
    /\ cs.game_over
    /\ cs.winner = "BLACK"

\* the move list records a move of the king of owner
KingHasMoved(s, owner) ==
    \E i \in 1 .. Len(s.move_history) :
        s.move_history[i].owner = owner /\ s.move_history[i].type = KING

\* the move list records a move that has left the corner or has arrived on
\* it: the rook that started there has moved, or was captured there
CornerDisturbed(s, corner) ==
    \E i \in 1 .. Len(s.move_history) :
        s.move_history[i].source = corner \/ s.move_history[i].target = corner

\* C13 (as stated): a castling move is accepted only if the move list records
\* no move of the castling king, the king stands on the e-file of its home
\* rank, the corner it castles towards holds a rook of its colour, and the
\* move list records no move from that corner or onto it (the rook there is
\* the one that started there: it has not moved and was not captured and
\* replaced).
C13_CastlingRights ==
    \A m \in Offered :
        (/\ cs.grid[m[1]][m[2]].type = KING
         /\ is_castling_move(cs.grid, m[1], m[2], m[3], m[4])
         /\ Accepts(cs, m))
            => LET owner == cs.grid[m[1]][m[2]].owner
                   corner == <<m[1], IF m[4] > m[2] THEN 7 ELSE 0>>
               IN  /\ ~KingHasMoved(cs, owner)
                   /\ <<m[1], m[2]>> = <<IF owner = WHITE THEN 7 ELSE 0, 4>>
                   /\ cs.grid[corner[1]][corner[2]] = Piece(ROOK, owner)
                   /\ ~CornerDisturbed(cs, corner)

\* C14 (as stated): an accepted en-passant capture puts the capturing pawn
\* on the en-passant target, empties its origin and the square of the
\* destination file on its originating rank and changes no other square;
\* that square held an enemy pawn before the move, and exactly that pawn is
\* appended to the list of captured pieces of its colour, the other list
\* staying as it was.
C14_EnPassantExecution ==
    \A m \in Offered :
        (/\ is_en_passant_move(cs.grid, m[1], m[2], m[3], m[4], cs.en_passant_target)
         /\ Accepts(cs, m))
            => LET r == on_piece_drop(cs, m[1], m[2], m[3], m[4]).state
                   mover == cs.grid[m[1]][m[2]]
                   taken == cs.grid[m[1]][m[4]]
               IN  /\ <<m[3], m[4]>> = cs.en_passant_target
                   /\ r.grid = SetSquare(MoveApplied(cs.grid, m[1], m[2], m[3], m[4]),
                                         m[1], m[4], NO_PIECE)
                   /\ taken = Piece(PAWN, enemy_player(mover.owner))
                   /\ IF mover.owner = WHITE
                      THEN /\ r.captured_black_pieces = Append(cs.captured_black_pieces, taken)
                           /\ r.captured_white_pieces = cs.captured_white_pieces
                      ELSE /\ r.captured_white_pieces = Append(cs.captured_white_pieces, taken)
                           /\ r.captured_black_pieces = cs.captured_black_pieces

\* the last entry of the move list is a pawn's two-square advance from its
\* home rank
TwoSquareAdvance(e) ==
    /\ e.type = PAWN
    /\ e.source[2] = e.target[2]
    /\ e.source[1] = (IF e.owner = WHITE THEN 6 ELSE 1)
    /\ e.target[1] = (IF e.owner = WHITE THEN 4 ELSE 3)

\* C15 (as stated): the en-passant target is set iff the most recent
\* accepted move is a pawn's two-square advance from its home rank, and is
\* then the square jumped over; and an en-passant capture is accepted only
\* from a pawn of the other colour than the pawn that has just advanced.
C15_EnPassantLifetime ==
    /\ cs.en_passant_target # None
           <=> (cs.move_history # << >> /\ TwoSquareAdvance(Last(cs.move_history)))
    /\ cs.en_passant_target # None
           => LET e == Last(cs.move_history)
              IN  cs.en_passant_target = <<(e.source[1] + e.target[1]) \div 2, e.source[2]>>
    /\ \A m \in Offered :
           (/\ is_en_passant_move(cs.grid, m[1], m[2], m[3], m[4], cs.en_passant_target)
            /\ Accepts(cs, m))
               => cs.grid[m[1]][m[2]].owner # Last(cs.move_history).owner

\* from s to r exactly one snapshot was pushed, and it is the live state of r
Pushed(s, r) ==
    \A i \in 1 .. 7 : Stacks(r)[i] = Append(Stacks(s)[i], Snapshot(r)[i])

\* C21: an accepted move that is not a pawn's move onto its far rank pushes
\* exactly one snapshot, equal to the live board, player, captured lists,
\* en-passant target, halfmove clock and repetition list after the move; a
\* rejected drop and the pawn move that opens the promotion dialog push
\* none; promote_pawn pushes exactly one such snapshot when a promotion is
\* pending and none otherwise; a refused undo and the turn-validation switch
\* push none; so the stacks hold one snapshot per completed half-move that
\* is not undone (and the initial one that reset_grid pushes).
C21_SnapshotDiscipline ==
    /\ \A m \in Offered :
           cs.grid[m[1]][m[2]].type # NONE
               => LET r == on_piece_drop(cs, m[1], m[2], m[3], m[4])
                  IN  IF \/ r.toast \in DropRejections
                         \/ r.toast = "Choose piece for pawn promotion!"
                      THEN Stacks(r.state) = Stacks(cs)
                      ELSE Pushed(cs, r.state)
    /\ \A piece_type \in PromotionChoices :
           LET r == promote_pawn(cs, piece_type)
           IN  IF cs.promotion_pending
               THEN Pushed(cs, r.state)
               ELSE Stacks(r.state) = Stacks(cs)
    /\ undo_last_move(cs).toast # "Move undone!"
           => Stacks(undo_last_move(cs).state) = Stacks(cs)
    /\ Stacks(toggle_turn_validation(cs).state) = Stacks(cs)
    /\ \A i \in 1 .. 7 :
           Len(Stacks(cs)[i]) = Len(runs) - (IF reset_done THEN 0 ELSE 1)

C21_Witness ==
    /\ last.op = "promote_pawn"
    /\ HalfMoveCompleted
    /\ Len(cs.board_history) = Len(cs.move_history) + 1
    /\ Last(cs.board_history) = cs.grid
    /\ Last(cs.captured_black_history) = cs.captured_black_pieces
    /\ cs.captured_black_pieces # << >>

\* C28: while the game is played with turn validation, the board holds
\* exactly one White king and exactly one Black king, whatever moves were
\* accepted, whatever promotion choices were made and whatever was undone.
C28_OneKingEach ==
    cs.turn_validation_enabled =>
        \A player \in {WHITE, BLACK} : Cardinality(KingSquares(cs.grid, player)) = 1

\* the castling flags of a side: king, kingside rook, queenside rook
CastlingFlagsOf(s, owner) ==
    IF owner = WHITE
    THEN <<s.white_king_moved, s.white_kingside_rook_moved, s.white_queenside_rook_moved>>
    ELSE <<s.black_king_moved, s.black_kingside_rook_moved, s.black_queenside_rook_moved>>

\* the proposal m moves the rook that started the game on corner: a rook of
\* owner leaves the corner, and the move list records no earlier move from
\* the corner or onto it
OriginalRookMoves(s, m, owner, corner) ==
    /\ <<m[1], m[2]>> = corner
    /\ s.grid[m[1]][m[2]] = Piece(ROOK, owner)
    /\ ~CornerDisturbed(s, corner)

\* C30: reset clears the six castling flags, and an accepted move sets the
\* king flag of a side exactly if it moves that side's king, the kingside
\* flag exactly if it moves the rook that started on that side's h-file
\* corner, the queenside flag exactly if it moves the rook that started on
\* the a-file corner, and no other flag; a promotion choice sets none.  (A
\* flag once set stays set.)
C30_CastlingFlagAccuracy ==
    /\ last.op = "reset_grid" =>
           \A owner \in {WHITE, BLACK} : CastlingFlagsOf(cs, owner) = <<FALSE, FALSE, FALSE>>
    /\ \A piece_type \in PromotionChoices, owner \in {WHITE, BLACK} :
           CastlingFlagsOf(promote_pawn(cs, piece_type).state, owner)
               = CastlingFlagsOf(cs, owner)
    /\ \A m \in Offered :
           Accepts(cs, m) =>
               \A owner \in {WHITE, BLACK} :
                   LET home == IF owner = WHITE THEN 7 ELSE 0
                       before == CastlingFlagsOf(cs, owner)
                       after == CastlingFlagsOf(on_piece_drop(cs, m[1], m[2], m[3], m[4]).state,
                                                owner)
                   IN  /\ after[1] = (before[1] \/ cs.grid[m[1]][m[2]] = Piece(KING, owner))
                       /\ after[2] = (before[2]
                                        \/ OriginalRookMoves(cs, m, owner, <<home, 7>>))
                       /\ after[3] = (before[3]
                                        \/ OriginalRookMoves(cs, m, owner, <<home, 0>>))

\* C31: when an accepted move is undone at once, the six castling flags are
\* what they were before the move, and so is the repetition key of the
\* position.
C31_UndoRestoresCastlingRights ==
    \A m \in Offered :
        LET moved == on_piece_drop(cs, m[1], m[2], m[3], m[4])
            undone == undo_last_move(moved.state)
        IN  (/\ moved.toast \notin DropRejections
             /\ ~cs.promotion_pending
             /\ ~moved.state.promotion_pending
             /\ undone.toast = "Move undone!")
                => /\ \A owner \in {WHITE, BLACK} :
                          CastlingFlagsOf(undone.state, owner) = CastlingFlagsOf(cs, owner)
                   /\ get_position_string(undone.state) = get_position_string(cs)

\* C32: while a promotion is pending on_piece_drop accepts no proposal, and
\* with turn validation enabled an accepted move is never made by the side
\* that made the last move of the move list.
C32_PendingBlocksMoves ==
    \A m \in Offered :
        Accepts(cs, m) =>
            /\ ~cs.promotion_pending
            /\ (cs.turn_validation_enabled /\ Len(cs.move_history) > 0)
                   => cs.grid[m[1]][m[2]].owner # Last(cs.move_history).owner

\* the row on which a pawn of owner promotes
FarRank(owner) == IF owner = WHITE THEN 0 ELSE 7

\* C33: if a promotion is pending, the pending square lies on the far rank of
\* the pending owner and holds a pawn of that owner, and (with turn
\* validation enabled) the pending owner is the current player; if none is
\* pending, no pawn stands on its far rank.
C33_PromotionState ==
    IF cs.promotion_pending
    THEN /\ cs.promotion_player \in {WHITE, BLACK}
         /\ cs.promotion_row = FarRank(cs.promotion_player)
         /\ cs.promotion_col \in Rows
         /\ cs.grid[cs.promotion_row][cs.promotion_col] = Piece(PAWN, cs.promotion_player)
         /\ cs.turn_validation_enabled => cs.current_player = cs.promotion_player
    ELSE \A owner \in {WHITE, BLACK}, col \in Rows :
             cs.grid[FarRank(owner)][col] # Piece(PAWN, owner)

\* C34: the snapshot stack is never empty, the starting position is at its
\* bottom, it holds one more snapshot than there are completed half-moves
\* that were not undone, and undo succeeds whenever there is such a half-move
\* and the game is not over.
C34_SnapshotStack ==
    /\ Len(cs.board_history) >= 1
    /\ cs.board_history[1] = create_default_board
    /\ Len(cs.board_history) = Len(runs)
    /\ (Len(runs) > 1 /\ ~cs.game_over) => undo_last_move(cs).toast = "Move undone!"

\* the number of owner's pieces on the board
PiecesOf(grid, owner) ==
    Cardinality({sq \in Rows \X Rows :
                    grid[sq[1]][sq[2]].type # NONE /\ grid[sq[1]][sq[2]].owner = owner})

\* the captured-piece list of a side
CapturedOf(s, owner) ==
    IF owner = WHITE THEN s.captured_white_pieces ELSE s.captured_black_pieces

\* C35: in a game played with turn validation, each side's pieces on the
\* board and in its captured list number 16 together, and an accepted move
\* appends to each side's list exactly the pieces of that side it has taken
\* off the board: one for a capture, none otherwise.
C35_PieceConservation ==
    cs.turn_validation_enabled =>
        /\ \A owner \in {WHITE, BLACK} :
               PiecesOf(cs.grid, owner) + Len(CapturedOf(cs, owner)) = 16
        /\ \A m \in Offered :
               Accepts(cs, m) =>
                   LET r == on_piece_drop(cs, m[1], m[2], m[3], m[4]).state
                   IN  \A owner \in {WHITE, BLACK} :
                           /\ Len(CapturedOf(r, owner)) - Len(CapturedOf(cs, owner))
                                  = PiecesOf(cs.grid, owner) - PiecesOf(r.grid, owner)
                           /\ Len(CapturedOf(r, owner)) - Len(CapturedOf(cs, owner)) \in {0, 1}

\* C36: with no promotion pending and the game not over, get_all_legal_moves
\* lists a move of the current player's pieces exactly if on_piece_drop
\* accepts it.
C36_EnumeratorAcceptorAgreement ==
    (~cs.promotion_pending /\ ~cs.game_over /\ cs.turn_validation_enabled) =>
        LET listed == get_all_legal_moves(cs.grid, cs.current_player, cs.en_passant_target)
        IN  \A m \in Rows \X Rows \X Rows \X Rows :
                (/\ cs.grid[m[1]][m[2]].type # NONE
                 /\ cs.grid[m[1]][m[2]].owner = cs.current_player)
                    => (m \in listed <=> Accepts(cs, m))

\* C37: with the game not over and no promotion pending, on_piece_drop
\* accepts at least one move of the current player's pieces.
C37_NoStuckGame ==
    (~cs.game_over /\ ~cs.promotion_pending /\ cs.turn_validation_enabled) =>
        \E m \in Rows \X Rows \X Rows \X Rows :
            /\ cs.grid[m[1]][m[2]].type # NONE
            /\ cs.grid[m[1]][m[2]].owner = cs.current_player
            /\ Accepts(cs, m)

\* what is to stay as it is once the game is over: the board, the current
\* player, the verdict, the captured lists and the snapshot stacks
Frozen(s) ==
    <<s.grid, s.current_player, s.game_over, s.winner, s.captured_white_pieces,
      s.captured_black_pieces, Stacks(s)>>

\* C38: once game_over is set, neither a dropped piece nor Undo nor a
\* promotion choice changes the board, the current player, the verdict, the
\* captured lists or a snapshot stack; game_over and promotion_pending are
\* never set together.
C38_GameOverAbsorbing ==
    cs.game_over =>
        /\ ~cs.promotion_pending
        /\ Frozen(undo_last_move(cs).state) = Frozen(cs)
        /\ \A piece_type \in PromotionChoices :
               Frozen(promote_pawn(cs, piece_type).state) = Frozen(cs)
        /\ \A m \in Rows \X Rows \X Rows \X Rows :
               cs.grid[m[1]][m[2]].type # NONE
                   => Frozen(on_piece_drop(cs, m[1], m[2], m[3], m[4]).state) = Frozen(cs)

\* C39: a promotion choice of queen, rook, bishop or knight puts that piece
\* of the pending owner on the pending square and changes no other square; a
\* request for a king, a pawn or the empty type changes nothing; and every
\* square holds NO_PIECE or a piece with a real type and a real owner.
C39_PromotionChoice ==
    /\ \A row \in Rows, col \in Rows :
           \/ cs.grid[row][col] = NO_PIECE
           \/ /\ cs.grid[row][col].type \in {PAWN, KNIGHT, BISHOP, ROOK, QUEEN, KING}
              /\ cs.grid[row][col].owner \in {WHITE, BLACK}
    /\ cs.promotion_pending =>
           /\ \A piece_type \in PromotionChoices :
                  promote_pawn(cs, piece_type).state.grid
                      = SetSquare(cs.grid, cs.promotion_row, cs.promotion_col,
                                  Piece(piece_type, cs.promotion_player))
           /\ \A piece_type \in {KING, PAWN, NONE} :
                  promote_pawn(cs, piece_type).state = cs

(***************************************************************************)
(* The engine on its own.  A board is set up square by square on an empty  *)
(* grid, as the engine's tests do, and one engine function is called on    *)
(* it.  cs.grid is the board and cs.en_passant_target the target passed to *)
(* the call; start keeps the board as it was set up.                       *)
(***************************************************************************)
\* [[NO_PIECE for _ in range(8)] for _ in range(8)]
EmptyBoard == [r \in Rows |-> [c \in Rows |-> NO_PIECE]]

Squares == Rows \X Rows

\* target coordinates handed to is_valid_move: the board and one step off it
Targets == (-1 .. 8) \X (-1 .. 8)

Players == {WHITE, BLACK}

BoardPieces == {Piece(t, o) : t \in {PAWN, KNIGHT, BISHOP, ROOK, QUEEN, KING}, o \in Players}

\* where the first piece of a two-piece board is put: a pawn on a home rank
\* or in the middle of the board, another piece in a corner or in the middle
MoverSquares(piece_type) ==
    IF piece_type = PAWN THEN {<<1, 3>>, <<3, 4>>, <<4, 4>>, <<6, 3>>}
    ELSE {<<0, 0>>, <<3, 4>>}

\* the second piece of a two-piece board (or none)
OtherPieces == {NO_PIECE, Piece(PAWN, WHITE), Piece(PAWN, BLACK)}

\* where the second piece is put: the four middle rows and the a-file
OtherSquares == {sq \in Squares : sq[1] \in 2 .. 5 \/ sq[2] = 0}

\* the en-passant targets passed with a pawn on the board
EnPassantTargets == {None, <<2, 3>>, <<5, 3>>}

\* what stands on a corner of the king's row on a castling board
CornerPieces(owner) == {NO_PIECE, Piece(ROOK, owner), Piece(ROOK, enemy_player(owner))}

\* the one further piece of a castling board (or none)
ExtraPieces(owner) ==
    {NO_PIECE, Piece(BISHOP, owner)}
        \cup {Piece(t, enemy_player(owner)) : t \in {PAWN, KNIGHT, BISHOP, ROOK, KING}}

\* board[row][col] = piece, for a square given as <<row, col>>
Put(grid, sq, piece) == SetSquare(grid, sq[1], sq[2], piece)

\* a piece on one of MoverSquares and at most one pawn elsewhere
TwoPieceBoards(mover) ==
    {Put(Put(EmptyBoard, osq, other), msq, mover) :
        msq \in MoverSquares(mover.type), osq \in OtherSquares, other \in OtherPieces}

\* a king on the e-file of the first or last row, the corners of that row,
\* and at most one further piece on the king's row or the row next to it
CastlingBoards(owner, row) ==
    {Put(Put(Put(Put(EmptyBoard, esq, extra), <<row, 0>>, qs), <<row, 7>>, ks),
         <<row, 4>>, Piece(KING, owner)) :
        qs \in CornerPieces(owner), ks \in CornerPieces(owner),
        extra \in ExtraPieces(owner),
        esq \in {sq \in Squares : abs(sq[1] - row) <= 1}}

\* Python's str(bool)
Bool(b) == IF b THEN "True" ELSE "False"

\* an engine call: its name, what it returned, the piece on the source square
\* (is_valid_move and is_valid_castling) and the kind of target
EngineCall(op, result, piece_type, kind) ==
    [op |-> op, toast |-> result, piece |-> piece_type, kind |-> kind]

SetUp(grid, en_passant_target) ==
    /\ cs = [ChessStateDefaults EXCEPT !.grid = grid,
                                       !.en_passant_target = en_passant_target]
    /\ game = 1
    /\ last = EngineCall("setup", NoToast, NONE, "")
    /\ start = Restorable(cs)
    /\ run = 0
    /\ runs = <<0>>
    /\ undo_run = 0
    /\ reset_done = FALSE

InitEngine ==
    \/ \E mover \in BoardPieces :
           \E grid \in TwoPieceBoards(mover) :
               \E t \in (IF mover.type = PAWN THEN EnPassantTargets ELSE {None}) :
                   SetUp(grid, t)
    \/ \E owner \in Players, row \in {0, 7} :
           \E grid \in CastlingBoards(owner, row) : SetUp(grid, None)

PieceSquares(grid) == {sq \in Squares : grid[sq[1]][sq[2]].type # NONE}

OnBoard(sq) == sq[1] \in Rows /\ sq[2] \in Rows

\* the kind of target a call is made with
TargetKind(grid, from, to, en_passant_target) ==
    IF ~OnBoard(to) THEN "off board"
    ELSE IF to = from THEN "same square"
    ELSE IF grid[to[1]][to[2]].type = NONE
         THEN IF to = en_passant_target THEN "en passant target" ELSE "empty"
    ELSE IF grid[to[1]][to[2]].owner = grid[from[1]][from[2]].owner THEN "own piece"
    ELSE "capture"

\* the calls ChessEngine.is_valid_move(board, from_row, from_col, to_row,
\* to_col, target) of a piece on the board
IsValidMoveCalls(grid, en_passant_target) ==
    {EngineCall("is_valid_move",
                Bool(is_valid_move(grid, from[1], from[2], to[1], to[2], en_passant_target)),
                grid[from[1]][from[2]].type,
                TargetKind(grid, from, to, en_passant_target)) :
        from \in PieceSquares(grid), to \in Targets}

IsValidMove ==
    /\ last.op = "setup"
    /\ \E call \in IsValidMoveCalls(cs.grid, cs.en_passant_target) : last' = call
    /\ UNCHANGED <<cs, game, start, run, runs, undo_run, reset_done>>

\* the squares would_leave_king_in_check is called with, as source and as
\* target: the squares that hold a piece, and three that may be empty
ProbeSquares(grid) == PieceSquares(grid) \cup {<<2, 4>>, <<5, 3>>, <<7, 7>>}

\* the calls ChessEngine.would_leave_king_in_check(board, from_row, from_col,
\* to_row, to_col, player), each with the board it leaves behind
WouldLeaveKingInCheckCalls(grid) ==
    {<<r.grid, EngineCall("would_leave_king_in_check", Bool(r.result), "",
                          IF grid[a[1][1]][a[1][2]].type = NONE THEN "empty source"
                          ELSE TargetKind(grid, a[1], a[2], None))>> :
        <<r, a>> \in {<<would_leave_king_in_check(grid, b[1][1], b[1][2], b[2][1], b[2][2],
                                                  b[3]), b>> :
                         b \in ProbeSquares(grid) \X ProbeSquares(grid) \X Players}}

WouldLeaveKingInCheck ==
    /\ last.op = "setup"
    /\ \E call \in WouldLeaveKingInCheckCalls(cs.grid) :
           /\ cs' = [cs EXCEPT !.grid = call[1]]
           /\ last' = call[2]
    /\ UNCHANGED <<game, start, run, runs, undo_run, reset_done>>

\* the flags a castling call is made with: king_moved, kingside_rook_moved,
\* queenside_rook_moved
CastlingFlags == BOOLEAN \X BOOLEAN \X BOOLEAN

\* the target squares a castling call is made with: the source's row and the
\* rows next to it
CastlingTargets(from) == {sq \in Squares : abs(sq[1] - from[1]) <= 1}

CastlingKind(from, to) ==
    IF to[1] # from[1] THEN "other row"
    ELSE IF to[2] = from[2] + 2 THEN "kingside"
    ELSE IF to[2] = from[2] - 2 THEN "queenside"
    ELSE "other column"

\* the calls ChessEngine.is_valid_castling(board, from_row, from_col, to_row,
\* to_col, player, king_moved, kingside_rook_moved, queenside_rook_moved) of
\* a king on the board, each with the board it leaves behind
IsValidCastlingCalls(grid) ==
    {<<r.grid, EngineCall("is_valid_castling", Bool(r.result), KING,
                          CastlingKind(a[1], a[2]))>> :
        <<r, a>> \in {<<is_valid_castling(grid, b[1][1], b[1][2], b[2][1], b[2][2], b[3],
                                          b[4][1], b[4][2], b[4][3]), b>> :
                         b \in {c \in {sq \in Squares : grid[sq[1]][sq[2]].type = KING}
                                        \X Squares \X Players \X CastlingFlags :
                                    c[2] \in CastlingTargets(c[1])}}}

IsValidCastling ==
    /\ last.op = "setup"
    /\ \E call \in IsValidCastlingCalls(cs.grid) :
           /\ cs' = [cs EXCEPT !.grid = call[1]]
           /\ last' = call[2]
    /\ UNCHANGED <<game, start, run, runs, undo_run, reset_done>>

NextEngine ==
    \/ IsValidMove
    \/ WouldLeaveKingInCheck
    \/ IsValidCastling

SpecEngine == InitEngine /\ [][NextEngine]_vars

(***************************************************************************)
(* Properties of the engine functions                                      *)
(***************************************************************************)
\* the board with the king of square <<row, from_col>> standing on col instead
KingOn(grid, row, from_col, col) ==
    SetSquare(SetSquare(grid, row, from_col, NO_PIECE), row, col, grid[row][from_col])

\* castling as C12 states it.  "In check" is what is_in_check answers; the
\* corner of a side is the end of the king's row on that side.
CastlingRule(grid, from, to, player, king_moved, kingside_rook_moved, queenside_rook_moved) ==
    LET kingside == to[2] > from[2]
        corner == IF kingside THEN 7 ELSE 0
        step == IF kingside THEN 1 ELSE -1
    IN  /\ grid[from[1]][from[2]] = Piece(KING, player)
        /\ to[1] = from[1]
        /\ abs(to[2] - from[2]) = 2
        /\ ~king_moved
        /\ ~(IF kingside THEN kingside_rook_moved ELSE queenside_rook_moved)
        /\ grid[from[1]][corner] = Piece(ROOK, player)
        /\ \A col \in Rows :
               (min(from[2], corner) < col /\ col < max(from[2], corner))
                   => grid[from[1]][col].type = NONE
        /\ ~is_in_check(grid, player)
        /\ ~is_in_check(KingOn(grid, from[1], from[2], from[2] + step), player)
        /\ ~is_in_check(KingOn(grid, from[1], from[2], from[2] + 2 * step), player)

Between(a, x, b) ==
    /\ x # a
    /\ x # b
    /\ (x[1] - a[1]) * (b[2] - a[2]) = (x[2] - a[2]) * (b[1] - a[1])
    /\ min(a[1], b[1]) <= x[1] /\ x[1] <= max(a[1], b[1])
    /\ min(a[2], b[2]) <= x[2] /\ x[2] <= max(a[2], b[2])

\* no square that holds a piece lies between from and to
NoPieceBetween(grid, from, to) ==
    \A x \in PieceSquares(grid) : ~Between(from, x, to)

RookRule(grid, from, to) ==
    (from[1] = to[1] \/ from[2] = to[2]) /\ NoPieceBetween(grid, from, to)

BishopRule(grid, from, to) ==
    abs(from[1] - to[1]) = abs(from[2] - to[2]) /\ NoPieceBetween(grid, from, to)

\* the moves C16 allows the rook, bishop, queen, knight or king on "from"
NonPawnRule(grid, from, to) ==
    LET piece == grid[from[1]][from[2]]
        rows == abs(from[1] - to[1])
        cols == abs(from[2] - to[2])
    IN  /\ OnBoard(to)
        /\ to # from
        /\ ~(grid[to[1]][to[2]].type # NONE /\ grid[to[1]][to[2]].owner = piece.owner)
        /\ CASE piece.type = ROOK -> RookRule(grid, from, to)
             [] piece.type = BISHOP -> BishopRule(grid, from, to)
             [] piece.type = QUEEN -> RookRule(grid, from, to) \/ BishopRule(grid, from, to)
             [] piece.type = KNIGHT -> <<rows, cols>> \in {<<1, 2>>, <<2, 1>>}
             [] piece.type = KING -> \/ (rows <= 1 /\ cols <= 1)
                                     \/ (rows = 0 /\ cols = 2)

\* C16: on every board set up, for every rook, bishop, queen, knight or king
\* on it and every target, is_valid_move returns true if and only if the target is on the
\* board, differs from the source, is not held by a piece of the same owner,
\* and satisfies the piece rule (rook: same rank or file, nothing strictly
\* between; bishop: equal absolute deltas, nothing strictly between; queen:
\* either; knight: (1,2) or (2,1); king: one square, or two squares along its
\* rank).
C16_NonPawnGeometry ==
    last.op = "setup"
        => \A from \in {sq \in PieceSquares(cs.grid) : cs.grid[sq[1]][sq[2]].type # PAWN} :
               \A to \in Targets :
                   is_valid_move(cs.grid, from[1], from[2], to[1], to[2],
                                 cs.en_passant_target)
                       <=> NonPawnRule(cs.grid, from, to)

\* the rook on e5 takes the pawn on c5, the first piece in its way, and is
\* refused the squares behind it
C16_Witness ==
    /\ last = EngineCall("is_valid_move", "True", ROOK, "capture")
    /\ cs.grid[3][4] = Piece(ROOK, WHITE)
    /\ cs.grid[3][2] = Piece(PAWN, BLACK)
    /\ ~is_valid_move(cs.grid, 3, 4, 3, 1, None)

\* the moves C17 allows the pawn on "from"
PawnRule(grid, from, to, en_passant_target) ==
    LET owner == grid[from[1]][from[2]].owner
        forward == IF owner = WHITE THEN -1 ELSE 1
        home == IF owner = WHITE THEN 6 ELSE 1
        empty(sq) == grid[sq[1]][sq[2]].type = NONE
        diagonal == to[1] = from[1] + forward /\ abs(to[2] - from[2]) = 1
    IN  /\ OnBoard(to)
        /\ \/ to = <<from[1] + forward, from[2]>> /\ empty(to)
           \/ /\ from[1] = home
              /\ to = <<from[1] + 2 * forward, from[2]>>
              /\ empty(<<from[1] + forward, from[2]>>)
              /\ empty(to)
           \/ diagonal /\ ~empty(to) /\ grid[to[1]][to[2]].owner # owner
           \/ diagonal /\ empty(to) /\ to = en_passant_target

\* C17: on every board set up, for every pawn on it, every target and the
\* en-passant target passed, is_valid_move returns
\* true exactly for one square forward onto an empty square, two squares
\* forward from the home rank with the intermediate and the target square
\* empty, one square diagonally forward onto an enemy piece, and one square
\* diagonally forward onto an empty square that is the en-passant target.
C17_PawnGeometry ==
    last.op = "setup"
        => \A from \in PieceSquares(cs.grid) :
               cs.grid[from[1]][from[2]].type = PAWN
                   => \A to \in Targets :
                          is_valid_move(cs.grid, from[1], from[2], to[1], to[2],
                                        cs.en_passant_target)
                              <=> PawnRule(cs.grid, from, to, cs.en_passant_target)

\* the white pawn on e5 may go to the en-passant target d6 behind the black
\* pawn on d5
C17_Witness ==
    /\ last = EngineCall("is_valid_move", "True", PAWN, "en passant target")
    /\ cs.en_passant_target = <<2, 3>>
    /\ cs.grid[3][4] = Piece(PAWN, WHITE)
    /\ cs.grid[3][3] = Piece(PAWN, BLACK)

\* The calls of would_leave_king_in_check that the four nested loops of
\* get_all_legal_moves make for player: one for every move of a piece of
\* player that is_valid_move accepts.
legal_moves_calls(grid, player, en_passant_target) ==
    {m \in Rows \X Rows \X Rows \X Rows :
        /\ grid[m[1]][m[2]].type # NONE
        /\ grid[m[1]][m[2]].owner = player
        /\ is_valid_move(grid, m[1], m[2], m[3], m[4], en_passant_target)}

\* C20: would_leave_king_in_check hands the board back as it found it: after
\* every call made on a board set up (empty source, source equal to target,
\* plain move, capture; answer True or False) the board is the board set up,
\* and so is it after each call that get_all_legal_moves (and with it
\* is_checkmate and is_stalemate) makes on that board, so that the loops of
\* get_all_legal_moves leave the board as it was.
C20_BoardUnchanged ==
    /\ last.op = "would_leave_king_in_check" => cs.grid = start.grid
    /\ last.op = "setup"
           => \A player \in Players :
                  \A m \in legal_moves_calls(cs.grid, player, cs.en_passant_target) :
                      would_leave_king_in_check(cs.grid, m[1], m[2], m[3], m[4], player).grid
                          = cs.grid

C20_Witness ==
    /\ last = EngineCall("would_leave_king_in_check", "True", "", "capture")
    /\ cs.grid = start.grid
    /\ cs.grid[7][4] = Piece(KING, WHITE)
    /\ cs.grid[7][0] = Piece(ROOK, BLACK)
    /\ cs.grid[7][7] = Piece(ROOK, WHITE)

\* the piece on "from" attacks the square "to" under the rules of chess
AttackRule(grid, from, to) ==
    LET piece == grid[from[1]][from[2]]
        rows == abs(from[1] - to[1])
        cols == abs(from[2] - to[2])
    IN  /\ to # from
        /\ CASE piece.type = ROOK -> RookRule(grid, from, to)
             [] piece.type = BISHOP -> BishopRule(grid, from, to)
             [] piece.type = QUEEN -> RookRule(grid, from, to) \/ BishopRule(grid, from, to)
             [] piece.type = KNIGHT -> <<rows, cols>> \in {<<1, 2>>, <<2, 1>>}
             [] piece.type = PAWN ->
                  to[1] = from[1] + (IF piece.owner = WHITE THEN -1 ELSE 1) /\ cols = 1
             [] piece.type = KING -> rows <= 1 /\ cols <= 1
             [] OTHER -> FALSE

\* the player has a king, and a piece of the other side attacks its square
KingAttacked(grid, player) ==
    \E king \in {sq \in PieceSquares(grid) : find_king(grid, player) = sq} :
        \E from \in PieceSquares(grid) :
            /\ grid[from[1]][from[2]].owner = enemy_player(player)
            /\ AttackRule(grid, from, king)

\* C22 (as stated): on every board set up, is_in_check(board, player) is
\* true if and only if the player's king stands on a square that a piece of
\* the other side attacks: rook, bishop and queen along clear lines, knight
\* by its jump, pawn on its two forward diagonals, king on the eight squares
\* next to it (so two kings on one rank with one square between them do not
\* check each other).
C22_CheckDetection ==
    last.op = "setup"
        => \A player \in Players : is_in_check(cs.grid, player) <=> KingAttacked(cs.grid, player)

\* C23 (as stated): on every board set up with its en-passant target, for
\* every source and destination square, is_en_passant_move returns true if
\* and only if the source holds a pawn, the destination is one row and one
\* column away, the destination is empty, and the destination is the
\* en-passant target (so never when no target is set or the mover is not a
\* pawn).
C23_EnPassantDetection ==
    last.op = "setup"
        => \A from \in Squares, to \in Squares :
               is_en_passant_move(cs.grid, from[1], from[2], to[1], to[2],
                                  cs.en_passant_target)
                   <=> /\ cs.grid[from[1]][from[2]].type = PAWN
                       /\ abs(from[1] - to[1]) = 1
                       /\ abs(from[2] - to[2]) = 1
                       /\ cs.grid[to[1]][to[2]].type = NONE
                       /\ cs.en_passant_target # None
                       /\ to = cs.en_passant_target

\* C27: on a board where a player has no king, is_in_check answers False for
\* that player, so is_checkmate is False for it, and would_leave_king_in_check
\* answers False for every call made for one of its pieces.
C27_NoKing ==
    last.op = "setup" =>
        \A player \in Players :
            KingSquares(cs.grid, player) = {} =>
                /\ find_king(cs.grid, player) = None
                /\ ~is_in_check(cs.grid, player)
                /\ ~is_checkmate(cs.grid, player, cs.en_passant_target)
                /\ \A from \in PieceSquares(cs.grid), to \in ProbeSquares(cs.grid) :
                       cs.grid[from[1]][from[2]].owner = player
                           => ~would_leave_king_in_check(cs.grid, from[1], from[2],
                                                         to[1], to[2], player).result

\* a capture probed on a board without kings was answered "False"
C27_Witness ==
    /\ last.op = "would_leave_king_in_check"
    /\ last.toast = "False"
    /\ last.kind = "capture"
    /\ KingSquares(cs.grid, WHITE) = {}
    /\ KingSquares(cs.grid, BLACK) = {}

(***************************************************************************)
(* Single calls.  The engine's functions of squares, piece type, owner and *)
(* capture flag are called on arguments drawn from bounded sets, as the    *)
(* engine's tests call them; on_piece_drop is called once on a position    *)
(* that was set up square by square; is_valid_castling is called for a     *)
(* king on any file of its row.  last holds the arguments, then the call   *)
(* and what it returned.                                                   *)
(***************************************************************************)
\* the source squares of the calls
CallSources == Rows \X {0, 4, 7}

\* PieceType
PieceTypes == {PAWN, KNIGHT, BISHOP, ROOK, QUEEN, KING, NONE}

\* the arguments of a call that is still to be made
Arguments(from, to, piece_type, owner) ==
    [op |-> "arguments", from |-> from, to |-> to, piece |-> piece_type, owner |-> owner,
     is_capture |-> FALSE, result |-> None]

\* the call op of the arguments args has returned result
Returned(args, op, result) == [args EXCEPT !.op = op, !.result = result]

\* both kings on their squares, nothing else
KingsBoard ==
    Put(Put(EmptyBoard, <<7, 4>>, Piece(KING, WHITE)), <<0, 4>>, Piece(KING, BLACK))

\* kings and rooks on their squares
RooksBoard ==
    Put(Put(Put(Put(KingsBoard, <<7, 0>>, Piece(ROOK, WHITE)), <<7, 7>>, Piece(ROOK, WHITE)),
            <<0, 0>>, Piece(ROOK, BLACK)), <<0, 7>>, Piece(ROOK, BLACK))

\* White pawn at (3,4), Black pawn at (3,3), en_passant_target = (2,3)
WhiteEnPassantBoard ==
    Put(Put(KingsBoard, <<3, 4>>, Piece(PAWN, WHITE)), <<3, 3>>, Piece(PAWN, BLACK))

\* the same seen from Black: Black pawn at (4,4), White pawn at (4,3),
\* en_passant_target = (5,3)
BlackEnPassantBoard ==
    Put(Put(KingsBoard, <<4, 4>>, Piece(PAWN, BLACK)), <<4, 3>>, Piece(PAWN, WHITE))

\* the positions on_piece_drop is called on: board and en-passant target
Positions ==
    {<<RooksBoard, None>>, <<WhiteEnPassantBoard, <<2, 3>>>>,
     <<BlackEnPassantBoard, <<5, 3>>>>, <<WhiteEnPassantBoard, None>>}

\* the drops made on a position: the four castlings, the two en-passant
\* captures, a king's step, a rook's move and a pawn's step
PositionDrops ==
    {<<7, 4, 7, 6>>, <<7, 4, 7, 2>>, <<0, 4, 0, 6>>, <<0, 4, 0, 2>>, <<3, 4, 2, 3>>,
     <<4, 4, 5, 3>>, <<7, 4, 7, 5>>, <<7, 0, 5, 0>>, <<3, 4, 2, 4>>}

\* a king of owner on any file of row, with rooks of its colour, rooks of
\* the other colour or nothing on the corners of the row that it does not
\* stand on
KingFileBoards(owner, row) ==
    {Put(Put(Put(EmptyBoard, <<row, 0>>, qs), <<row, 7>>, ks), <<row, col>>,
         Piece(KING, owner)) :
        qs \in CornerPieces(owner), ks \in CornerPieces(owner), col \in Rows}

InitCalls ==
    \/ /\ \E from \in CallSources, to \in Squares, piece_type \in PieceTypes,
            owner \in Players :
              last = Arguments(from, to, piece_type, owner)
       /\ cs = [ChessStateDefaults EXCEPT !.grid = EmptyBoard]
       /\ game = 1
       /\ start = Restorable(cs)
       /\ run = 0
       /\ runs = <<0>>
       /\ undo_run = 0
       /\ reset_done = FALSE
    \/ /\ \E position \in Positions, player \in Players :
              cs = [ChessStateDefaults EXCEPT !.grid = position[1],
                                              !.en_passant_target = position[2],
                                              !.current_player = player]
       /\ last = EngineCall("position", NoToast, NONE, "")
       /\ game = 1
       /\ start = Restorable(cs)
       /\ run = 0
       /\ runs = <<0>>
       /\ undo_run = 0
       /\ reset_done = FALSE
    \/ \E owner \in Players, row \in {0, 7} :
           \E grid \in KingFileBoards(owner, row) : SetUp(grid, None)

\* ChessEngine.get_en_passant_target(from_row, from_col, to_row, to_col,
\* piece_type, owner)
GetEnPassantTarget ==
    /\ last.op = "arguments"
    /\ last' = Returned(last, "get_en_passant_target",
                        get_en_passant_target(last.from[1], last.from[2], last.to[1],
                                              last.to[2], last.piece, last.owner))
    /\ UNCHANGED <<cs, game, start, run, runs, undo_run, reset_done>>

\* ChessEngine.is_pawn_promotion(from_row, to_row, piece_type, owner)
IsPawnPromotion ==
    /\ last.op = "arguments"
    /\ last' = Returned(last, "is_pawn_promotion",
                        is_pawn_promotion(last.from[1], last.to[1], last.piece, last.owner))
    /\ UNCHANGED <<cs, game, start, run, runs, undo_run, reset_done>>

\* ChessEngine.get_chess_notation(piece_type, from_row, from_col, to_row,
\* to_col, is_capture)
GetChessNotation ==
    /\ last.op = "arguments"
    /\ \E is_capture \in BOOLEAN :
           last' = Returned([last EXCEPT !.is_capture = is_capture], "get_chess_notation",
                            get_chess_notation(last.piece, last.from[1], last.from[2],
                                               last.to[1], last.to[2], is_capture))
    /\ UNCHANGED <<cs, game, start, run, runs, undo_run, reset_done>>

\* one drop on a position
DropOnPosition ==
    /\ last.op = "position"
    /\ \E m \in PositionDrops :
           /\ cs.grid[m[1]][m[2]].type # NONE
           /\ \E r \in {on_piece_drop(cs, m[1], m[2], m[3], m[4])} :
                  /\ cs' = r.state
                  /\ last' = EngineCall("on_piece_drop", r.toast, cs.grid[m[1]][m[2]].type,
                                        "")
    /\ UNCHANGED <<game, start, run, runs, undo_run, reset_done>>

NextCalls ==
    \/ GetEnPassantTarget
    \/ IsPawnPromotion
    \/ GetChessNotation
    \/ DropOnPosition
    \/ IsValidCastling

SpecCalls == InitCalls /\ [][NextCalls]_vars

(***************************************************************************)
(* Properties of the single calls                                          *)
(***************************************************************************)
\* C24: for every source and destination square on the board, piece type and
\* owner, get_en_passant_target returns a square if and only if the piece is
\* a pawn that stays in its file and advances two rows from its home rank
\* (row 6 to row 4 for White, row 1 to row 3 for Black), and that square is
\* then the one between source and destination; every other call returns
\* None.
C24_EnPassantTarget ==
    last.op = "get_en_passant_target"
        => LET forward == IF last.owner = WHITE THEN -1 ELSE 1
               home == IF last.owner = WHITE THEN 6 ELSE 1
               advance == /\ last.piece = PAWN
                          /\ last.from[2] = last.to[2]
                          /\ last.from[1] = home
                          /\ last.to[1] = home + 2 * forward
           IN  /\ last.result # None <=> advance
               /\ advance => last.result = <<home + forward, last.from[2]>>

\* d7-d5 gives d6
C24_Witness ==
    /\ last.op = "get_en_passant_target"
    /\ last.piece = PAWN /\ last.owner = BLACK
    /\ last.from = <<1, 4>> /\ last.to = <<3, 4>>
    /\ last.result = <<2, 4>>

\* C25: for every source row, destination row, piece type and owner,
\* is_pawn_promotion returns true if and only if the piece is a pawn and the
\* destination row is 0 for White or 7 for Black, whatever the source row
\* (the function is not told whether the move captures); a pawn on its own
\* back rank (row 7 for White, row 0 for Black) is not promoted.
C25_PromotionDetection ==
    last.op = "is_pawn_promotion"
        => /\ last.result
                  <=> (last.piece = PAWN /\ last.to[1] = (IF last.owner = WHITE THEN 0 ELSE 7))
           /\ (last.piece = PAWN /\ last.to[1] = (IF last.owner = WHITE THEN 7 ELSE 0))
                  => ~last.result

\* a Black pawn that arrives on row 0 from row 1 is not promoted
C25_Witness ==
    /\ last.op = "is_pawn_promotion"
    /\ last.piece = PAWN /\ last.owner = BLACK
    /\ last.from = <<1, 4>> /\ last.to = <<0, 4>>
    /\ last.result = FALSE

\* the file letter of a column
File(col) ==
    CASE col = 0 -> "a" [] col = 1 -> "b" [] col = 2 -> "c" [] col = 3 -> "d"
      [] col = 4 -> "e" [] col = 5 -> "f" [] col = 6 -> "g" [] col = 7 -> "h"

\* the rank digit of a row: 8 minus the row
Rank(row) ==
    CASE row = 0 -> "8" [] row = 1 -> "7" [] row = 2 -> "6" [] row = 3 -> "5"
      [] row = 4 -> "4" [] row = 5 -> "3" [] row = 6 -> "2" [] row = 7 -> "1"

\* the letter of a piece that is not a pawn
Letter(piece_type) ==
    CASE piece_type = KING -> "K" [] piece_type = QUEEN -> "Q" [] piece_type = ROOK -> "R"
      [] piece_type = BISHOP -> "B" [] piece_type = KNIGHT -> "N"

\* C26: for every piece type, source, destination and capture flag,
\* get_chess_notation renders a pawn's non-capture as the destination square
\* (file letter, rank 8 minus row), a pawn's capture as origin file, "x" and
\* the destination square, and any other piece as its letter, "x" if it
\* captures, and the destination square; and on_piece_drop records an
\* accepted castling as "O-O" when the king moves towards the h-file and as
\* "O-O-O" otherwise, and an accepted en-passant capture as origin file,
\* "x", the destination square and " e.p.".
C26_MoveNotation ==
    /\ (last.op = "get_chess_notation" /\ last.piece # NONE)
           => LET square == File(last.to[2]) \o Rank(last.to[1])
              IN  last.result =
                      IF last.piece = PAWN
                      THEN IF last.is_capture THEN File(last.from[2]) \o "x" \o square
                           ELSE square
                      ELSE Letter(last.piece) \o (IF last.is_capture THEN "x" ELSE "")
                               \o square
    /\ last.op = "position"
           => \A m \in PositionDrops :
                  (cs.grid[m[1]][m[2]].type # NONE /\ Accepts(cs, m))
                      => LET recorded ==
                                 Last(on_piece_drop(cs, m[1], m[2], m[3], m[4]).state
                                          .move_history).notation
                         IN  /\ is_castling_move(cs.grid, m[1], m[2], m[3], m[4])
                                    => recorded = (IF m[4] > m[2] THEN "O-O" ELSE "O-O-O")
                             /\ is_en_passant_move(cs.grid, m[1], m[2], m[3], m[4],
                                                   cs.en_passant_target)
                                    => recorded = File(m[2]) \o "x" \o File(m[4])
                                                      \o Rank(m[3]) \o " e.p."

\* the pawn on e2 takes on f3
C26_Witness ==
    /\ last.op = "get_chess_notation"
    /\ last.piece = PAWN /\ last.is_capture
    /\ last.from = <<6, 4>> /\ last.to = <<5, 5>>
    /\ last.result = "exf3"

\* C29: is_valid_castling leaves the board as it found it, for a king on any
\* file of its row, any target square and any answer.
C29_CastlingBoardRestored ==
    last.op = "is_valid_castling" => cs.grid = start.grid

============================================================================
